---- MODULE Spec2Model ----
(***************************************************************************)
(* Request authentication of the Orderly command-line scripts              *)
(* (src/orderly-auth.js): canonical message, ed25519 request signature,    *)
(* header set and request descriptor.                                      *)
(*                                                                         *)
(* JavaScript strings are modelled as sequences of one-character strings,  *)
(* byte arrays (Uint8Array) as sequences of numbers in 0..255.             *)
(***************************************************************************)
EXTENDS Integers, Sequences, FiniteSets, TLC

(***************************************************************************)
(* Bounds of the model.                                                    *)
(***************************************************************************)
\* First value of the wall clock (Date.now()), in milliseconds.
ClockStart == 9
\* Number of milliseconds the wall clock may advance.
ClockSteps == 1
\* Length of the signatures the signing primitive returns (64 for ed25519;
\* 64 and SigLen both leave one byte after the last full 3-byte group).
SigLen == 4

(***************************************************************************)
(* Program constants.                                                      *)
(***************************************************************************)
\* Length of an ed25519 private key.
KeyLen == 32

(***************************************************************************)
(* Characters and strings.                                                 *)
(***************************************************************************)
\* Printable ASCII, code points 32..126 in order ("grave" stands for the
\* grave accent, code 96).
Ascii ==
    <<
      " ", "!", "\"", "#", "$", "%", "&", "'", "(", ")", "*", "+",
      ",", "-", ".", "/", "0", "1", "2", "3", "4", "5", "6", "7",
      "8", "9", ":", ";", "<", "=", ">", "?", "@", "A", "B", "C",
      "D", "E", "F", "G", "H", "I", "J", "K", "L", "M", "N", "O",
      "P", "Q", "R", "S", "T", "U", "V", "W", "X", "Y", "Z", "[",
      "\\", "]", "^", "_", "grave", "a", "b", "c", "d", "e", "f", "g",
      "h", "i", "j", "k", "l", "m", "n", "o", "p", "q", "r", "s",
      "t", "u", "v", "w", "x", "y", "z", "{", "|", "}", "~" >>

CharCode(c) == 31 + (CHOOSE k \in 1..Len(Ascii) : Ascii[k] = c)

CodeChar(n) == Ascii[n - 31]

\* String.prototype.toUpperCase on ASCII text.
toUpperCase(s) ==
    [i \in 1..Len(s) |->
        IF CharCode(s[i]) \in 97..122 THEN CodeChar(CharCode(s[i]) - 32) ELSE s[i]]

\* Decimal rendering of a non-negative integer: String(n) and `${n}`.
RECURSIVE NumberToString(_)
NumberToString(n) ==
    IF n < 10 THEN << CodeChar(48 + n) >>
    ELSE NumberToString(n \div 10) \o << CodeChar(48 + (n % 10)) >>

\* new TextEncoder().encode(message) on ASCII text: one byte per character.
TextEncode(s) == [i \in 1..Len(s) |-> CharCode(s[i])]

(***************************************************************************)
(* Base64: Buffer.prototype.toString("base64url") and its inverse.         *)
(***************************************************************************)
\* The 62 characters the base64 and base64url alphabets share.
Base64Common ==
    <<
      "A", "B", "C", "D", "E", "F", "G", "H", "I", "J", "K", "L", "M", "N", "O", "P",
      "Q", "R", "S", "T", "U", "V", "W", "X", "Y", "Z", "a", "b", "c", "d", "e", "f",
      "g", "h", "i", "j", "k", "l", "m", "n", "o", "p", "q", "r", "s", "t", "u", "v",
      "w", "x", "y", "z", "0", "1", "2", "3", "4", "5", "6", "7", "8", "9" >>

Base64UrlAlphabet == Base64Common \o << "-", "_" >>

Base64StdAlphabet == Base64Common \o << "+", "/" >>

\* The groups of six bits of a byte sequence, the last group filled with zero bits.
RECURSIVE Sextets(_)
Sextets(bytes) ==
    IF Len(bytes) = 0 THEN << >>
    ELSE IF Len(bytes) = 1 THEN
        << bytes[1] \div 4, (bytes[1] % 4) * 16 >>
    ELSE IF Len(bytes) = 2 THEN
        << bytes[1] \div 4,
           (bytes[1] % 4) * 16 + bytes[2] \div 16,
           (bytes[2] % 16) * 4 >>
    ELSE
        << bytes[1] \div 4,
           (bytes[1] % 4) * 16 + bytes[2] \div 16,
           (bytes[2] % 16) * 4 + bytes[3] \div 64,
           bytes[3] % 64 >> \o Sextets(SubSeq(bytes, 4, Len(bytes)))

\* Standard base64 with "=" padding: what toString("base64") would give.
ToBase64Std(bytes) ==
    LET six == Sextets(bytes)
        pad == IF Len(bytes) % 3 = 1 THEN << "=", "=" >>
               ELSE IF Len(bytes) % 3 = 2 THEN << "=" >> ELSE << >>
    IN  [i \in 1..Len(six) |-> Base64StdAlphabet[six[i] + 1]] \o pad

\* Buffer.from(bytes).toString("base64url"): URL-safe alphabet, no padding.
ToBase64Url(bytes) ==
    LET six == Sextets(bytes)
    IN  [i \in 1..Len(six) |-> Base64UrlAlphabet[six[i] + 1]]

\* The value of a base64url character; -1 for a character outside the alphabet.
Base64UrlValue(c) ==
    IF \E k \in 1..Len(Base64UrlAlphabet) : Base64UrlAlphabet[k] = c
    THEN (CHOOSE k \in 1..Len(Base64UrlAlphabet) : Base64UrlAlphabet[k] = c) - 1
    ELSE -1

\* Base64url decoding of a sequence of sextet values (unpadded input).
RECURSIVE BytesOfSextets(_)
BytesOfSextets(six) ==
    IF Len(six) < 2 THEN << >>
    ELSE IF Len(six) = 2 THEN
        << six[1] * 4 + six[2] \div 16 >>
    ELSE IF Len(six) = 3 THEN
        << six[1] * 4 + six[2] \div 16,
           (six[2] % 16) * 16 + six[3] \div 4 >>
    ELSE
        << six[1] * 4 + six[2] \div 16,
           (six[2] % 16) * 16 + six[3] \div 4,
           (six[3] % 4) * 64 + six[4] >> \o BytesOfSextets(SubSeq(six, 5, Len(six)))

\* Buffer.from(text, "base64url"): the decoder stops at the first character
\* that is not in the alphabet.
FromBase64Url(text) ==
    LET bad == {i \in 1..Len(text) : Base64UrlValue(text[i]) < 0}
        n   == IF bad = {} THEN Len(text)
               ELSE (CHOOSE i \in bad : \A j \in bad : i <= j) - 1
    IN  BytesOfSextets([i \in 1..n |-> Base64UrlValue(text[i])])

(***************************************************************************)
(* JavaScript values passed as the body argument.                          *)
(***************************************************************************)
JsNull == [t |-> "null", v |-> << >>]

JsUndefined == [t |-> "undefined", v |-> << >>]

JsString(s) == [t |-> "string", v |-> s]

JsNumber(n) == [t |-> "number", v |-> n]

JsBoolean(b) == [t |-> "boolean", v |-> b]

\* A plain object, its properties in insertion order: a sequence of
\* <<key, value>> pairs, the values being JavaScript values.
JsObject(props) == [t |-> "object", v |-> props]

\* JavaScript truthiness: `if (body)`, `!data.success`, `a || b`.
Truthy(x) ==
    CASE x.t = "null" -> FALSE
      [] x.t = "undefined" -> FALSE
      [] x.t = "string" -> x.v # << >>
      [] x.t = "number" -> x.v # 0
      [] x.t = "boolean" -> x.v
      [] x.t = "object" -> TRUE

\* JSON.stringify of a string without characters that need escaping.
JsonQuote(s) == << "\"" >> \o s \o << "\"" >>

\* JSON.stringify leaves out the properties whose value is undefined.
JsonDefined(p) == p[2].t # "undefined"

RECURSIVE JsonMembers(_), JsonValue(_)
JsonMembers(props) ==
    IF props = << >> THEN << >>
    ELSE JsonQuote(props[1][1]) \o << ":" >> \o JsonValue(props[1][2])
         \o (IF Len(props) > 1 THEN << "," >> ELSE << >>)
         \o JsonMembers(Tail(props))

JsonValue(x) ==
    CASE x.t = "string" -> JsonQuote(x.v)
      [] x.t = "number" -> NumberToString(x.v)
      [] x.t = "boolean" -> IF x.v THEN << "t", "r", "u", "e" >>
                            ELSE << "f", "a", "l", "s", "e" >>
      [] x.t = "null" -> << "n", "u", "l", "l" >>
      [] x.t = "object" ->
           << "{" >> \o JsonMembers(SelectSeq(x.v, JsonDefined)) \o << "}" >>

\* JSON.stringify(body) for a plain object.
JSONStringify(x) == JsonValue(x)

(***************************************************************************)
(* src/orderly-auth.js: the pure functions.                                *)
(***************************************************************************)
Sep == << "|" >>

\* A builder that puts a separator between the fields.
normalizeRequestMessage_separated(timestamp, method, path, body) ==
    NumberToString(timestamp) \o Sep \o method \o Sep \o path \o Sep
        \o (IF body.t = "undefined" THEN << >> ELSE body.v)

\* `${timestamp}${method}${path}${body}`, body = "" when omitted.
normalizeRequestMessage(timestamp, method, path, body) ==
    NumberToString(timestamp) \o method \o path
        \o (IF body.t = "undefined" THEN << >> ELSE body.v)

GET == << "G", "E", "T" >>

DELETE == << "D", "E", "L", "E", "T", "E" >>

POST == << "P", "O", "S", "T" >>

PUT == << "P", "U", "T" >>

FormUrlEncoded == "application/x-www-form-urlencoded"

ApplicationJson == "application/json"

\* A content-type choice that compares the method as given.
getContentType_caseSensitive(method) ==
    IF method = GET \/ method = DELETE THEN FormUrlEncoded ELSE ApplicationJson

getContentType(method) ==
    LET upperMethod == toUpperCase(method)
    IN  IF upperMethod = GET \/ upperMethod = DELETE
        THEN FormUrlEncoded
        ELSE ApplicationJson

\* let bodyString = ""; if (body) bodyString = typeof body === "string" ? ...
BodyString(body) ==
    IF Truthy(body)
    THEN IF body.t = "string" THEN body.v ELSE JSONStringify(body)
    ELSE << >>

RECURSIVE TrimLeft(_)
TrimLeft(s) == IF s # << >> /\ Head(s) = " " THEN TrimLeft(Tail(s)) ELSE s

RECURSIVE TrimRight(_)
TrimRight(s) ==
    IF s # << >> /\ s[Len(s)] = " " THEN TrimRight(SubSeq(s, 1, Len(s) - 1)) ELSE s

\* A header assembly that trims the account id.
Headers_trimmed(method, timestamp, accountId, orderlyKey, signature) ==
    ("Content-Type" :> getContentType(method))
    @@ ("orderly-timestamp" :> NumberToString(timestamp))
    @@ ("orderly-account-id" :> TrimLeft(TrimRight(accountId)))
    @@ ("orderly-key" :> orderlyKey)
    @@ ("orderly-signature" :> signature)

\* const headers = { ... }
Headers(method, timestamp, accountId, orderlyKey, signature) ==
    ("Content-Type" :> getContentType(method))
    @@ ("orderly-timestamp" :> NumberToString(timestamp))
    @@ ("orderly-account-id" :> accountId)
    @@ ("orderly-key" :> orderlyKey)
    @@ ("orderly-signature" :> signature)

\* A descriptor that attaches the body whatever the method.
RequestConfig_anyMethod(method, headers, bodyString) ==
    LET config == ("method" :> toUpperCase(method)) @@ ("headers" :> headers)
    IN  IF bodyString # << >> THEN config @@ ("body" :> bodyString) ELSE config

\* A descriptor whose body is serialised a second time.
RequestConfig_restringified(method, headers, bodyString) ==
    LET config == ("method" :> toUpperCase(method)) @@ ("headers" :> headers)
    IN  IF bodyString # << >>
           /\ (toUpperCase(method) = POST \/ toUpperCase(method) = PUT)
        THEN config @@ ("body" :> JsonQuote(bodyString))
        ELSE config

\* const requestConfig = { method, headers }; body added for POST/PUT.
RequestConfig(method, headers, bodyString) ==
    LET config == ("method" :> toUpperCase(method)) @@ ("headers" :> headers)
    IN  IF bodyString # << >>
           /\ (toUpperCase(method) = POST \/ toUpperCase(method) = PUT)
        THEN config @@ ("body" :> bodyString)
        ELSE config

(***************************************************************************)
(* The inputs the model draws from.                                        *)
(***************************************************************************)
Clock == ClockStart..(ClockStart + ClockSteps)

Methods ==
    { GET, << "g", "e", "t" >>, DELETE, POST, << "P", "u", "t" >>,
      << "P", "A", "T", "C", "H" >> }

Paths == { << "/", "o" >>, << "/", "o", "?", "s", "=", "X" >> }

Bodies ==
    { JsNull, JsUndefined, JsString(<< >>), JsString(<< "a", "=", "1" >>),
      JsObject(<< >>), JsObject(<< << << "s" >>, JsString(<< "X" >>) >> >>) }

AccountIds == { << "0", "x", "a", "1" >>, << " ", "A", "b", " " >> }

OrderlyKeys == { << "e", "d", ":", "P", "U", "B" >> }

\* A 32-byte private key and one that is a byte short.
PrivateKeys == { [i \in 1..KeyLen |-> 7], [i \in 1..(KeyLen - 1) |-> 7] }

\* Messages of direct createOrderlySignature calls.
Messages == { << "m" >>, << "9", "G", "E", "T", "/", "o" >> }

\* The signatures the signing primitive is let to return: SigLen bytes each.
SigSample ==
    { [i \in 1..SigLen |-> (p[1] * i + p[2]) % 256] :
        p \in { << 0, 0 >>, << 0, 251 >>, << 0, 255 >>, << 77, 3 >> } }

(***************************************************************************)
(* State.                                                                  *)
(***************************************************************************)
VARIABLES
    now,                \* the wall clock, Date.now()
    env,                \* the credential the process loaded
    pc,                 \* "idle", "await_sign", "returned" or "thrown"
    fn,                 \* the exported function that is running or ran last
    args,               \* its arguments
    timestamp,          \* createAuthenticatedRequest: const timestamp
    bodyString,         \* createAuthenticatedRequest: let bodyString
    normalizedMessage,  \* createAuthenticatedRequest: const normalizedMessage
    messageBytes,       \* createOrderlySignature: const messageBytes
    signCalls,          \* invocations of sign() in the running call
    signature,          \* createOrderlySignature: const signature (raw bytes)
    ret,                \* the value returned, or the error thrown
    prev,               \* the signing call completed before this one
    signed,             \* what the signing primitive returned, by message and key
    deposit,            \* depositUSDC: its position, locals and chain calls
    op                  \* an operation script: its position, locals and requests

vars ==
    << now, env, pc, fn, args, timestamp, bodyString, normalizedMessage,
       messageBytes, signCalls, signature, ret, prev, signed, deposit, op >>

\* No depositUSDC, and no operation script, is running.
NoDeposit == [pc |-> "none"]

NoOperation == [pc |-> "none"]

NoValue == [t |-> "none"]

NoCall == [fn |-> "none"]

SigningFns == { "createOrderlySignature", "createAuthenticatedRequest" }

\* The error sign() throws for a private key that is not 32 bytes long.
SignKeyError == [error |-> "private key of length 32 expected"]

\* The private key argument of the running call.
PrivateKeyArg ==
    IF fn = "createOrderlySignature" THEN args.privateKey
    ELSE args.orderlyPrivateKey

Init ==
    /\ now = ClockStart
    /\ env \in [accountId : AccountIds, orderlyKey : OrderlyKeys,
                orderlyPrivateKey : PrivateKeys]
    /\ pc = "idle"
    /\ fn = "none"
    /\ args = NoValue
    /\ timestamp = 0
    /\ bodyString = << >>
    /\ normalizedMessage = << >>
    /\ messageBytes = << >>
    /\ signCalls = 0
    /\ signature = << >>
    /\ ret = NoValue
    /\ prev = NoCall
    /\ signed = {}
    /\ deposit = NoDeposit
    /\ op = NoOperation

\* The wall clock advances.
Tick ==
    /\ now < ClockStart + ClockSteps
    /\ now' = now + 1
    /\ UNCHANGED << env, pc, fn, args, timestamp, bodyString, normalizedMessage,
                    messageBytes, signCalls, signature, ret, prev, signed,
                    deposit, op >>

\* A call starts once the one before it has completed. A completed signing
\* call is kept as prev while the call that starts repeats its arguments, and
\* with it what the signing primitive returned to it.
Remember(newFn, newArgs) ==
    IF pc \in { "returned", "thrown" } /\ fn \in SigningFns
       /\ fn = newFn /\ args = newArgs
    THEN /\ prev' = [fn |-> fn, args |-> args, timestamp |-> timestamp,
                     messageBytes |-> messageBytes, signature |-> signature,
                     ret |-> ret, pc |-> pc]
         /\ signed' = { e \in signed :
                          e.message = messageBytes /\ e.key = PrivateKeyArg }
    ELSE /\ prev' = NoCall
         /\ signed' = {}

CallNormalizeRequestMessage(ts, method, path, body) ==
    /\ pc # "await_sign"
    /\ Remember("normalizeRequestMessage", NoValue)
    /\ fn' = "normalizeRequestMessage"
    /\ args' = [timestamp |-> ts, method |-> method, path |-> path, body |-> body]
    /\ ret' = normalizeRequestMessage(ts, method, path, body)
    /\ pc' = "returned"
    /\ timestamp' = 0
    /\ bodyString' = << >>
    /\ normalizedMessage' = << >>
    /\ messageBytes' = << >>
    /\ signCalls' = 0
    /\ signature' = << >>
    /\ UNCHANGED << now, env, deposit, op >>

CallGetContentType(method) ==
    /\ pc # "await_sign"
    /\ Remember("getContentType", NoValue)
    /\ fn' = "getContentType"
    /\ args' = [method |-> method]
    /\ ret' = getContentType(method)
    /\ pc' = "returned"
    /\ timestamp' = 0
    /\ bodyString' = << >>
    /\ normalizedMessage' = << >>
    /\ messageBytes' = << >>
    /\ signCalls' = 0
    /\ signature' = << >>
    /\ UNCHANGED << now, env, deposit, op >>

\* createOrderlySignature up to its await: the message is encoded and sign()
\* is invoked.
CallCreateOrderlySignature(message) ==
    /\ pc # "await_sign"
    /\ fn' = "createOrderlySignature"
    /\ args' = [message |-> message, privateKey |-> env.orderlyPrivateKey]
    /\ Remember("createOrderlySignature", args')
    /\ messageBytes' = TextEncode(message)
    /\ signCalls' = 1
    /\ pc' = "await_sign"
    /\ timestamp' = 0
    /\ bodyString' = << >>
    /\ normalizedMessage' = << >>
    /\ signature' = << >>
    /\ ret' = NoValue
    /\ UNCHANGED << now, env, deposit, op >>

\* The message createAuthenticatedRequest lets sign.
SignedMessage_asGiven(ts, method, path, body) ==
    normalizeRequestMessage(ts, method, path, JsString(body))

SignedMessage(ts, method, path, body) ==
    normalizeRequestMessage(ts, toUpperCase(method), path, JsString(body))

\* createAuthenticatedRequest up to its await: timestamp, body string and
\* normalized message, then createOrderlySignature up to sign().
CallCreateAuthenticatedRequest(method, path, body) ==
    /\ pc # "await_sign"
    /\ fn' = "createAuthenticatedRequest"
    /\ args' = [method |-> method, path |-> path, body |-> body,
                accountId |-> env.accountId, orderlyKey |-> env.orderlyKey,
                orderlyPrivateKey |-> env.orderlyPrivateKey]
    /\ Remember("createAuthenticatedRequest", args')
    /\ timestamp' = now
    /\ bodyString' = BodyString(body)
    /\ normalizedMessage' = SignedMessage(now, method, path, BodyString(body))
    /\ messageBytes' = TextEncode(normalizedMessage')
    /\ signCalls' = 1
    /\ pc' = "await_sign"
    /\ signature' = << >>
    /\ ret' = NoValue
    /\ UNCHANGED << now, env, deposit, op >>

\* What a function does when the promise it awaits is rejected.
AwaitRejected_swallowed(err) ==
    [pc |-> "returned", ret |-> << >>]

\* No try/catch around the await: the rejection is the function's own.
AwaitRejected(err) ==
    [pc |-> "thrown", ret |-> err]

\* sign() rejects a private key that is not KeyLen bytes long.
SignReject ==
    /\ pc = "await_sign"
    /\ Len(PrivateKeyArg) # KeyLen
    /\ pc' = AwaitRejected(SignKeyError).pc
    /\ ret' = AwaitRejected(SignKeyError).ret
    /\ UNCHANGED << now, env, fn, args, timestamp, bodyString, normalizedMessage,
                    messageBytes, signCalls, signature, prev, signed,
                    deposit, op >>

\* The signatures sign() may return for a message and key: the one it returned
\* before for them (ed25519 is deterministic), else one it returned for nothing
\* else (distinct messages or keys get distinct signatures).
SignatureOf(message, key) ==
    IF \E e \in signed : e.message = message /\ e.key = key
    THEN { e.signature : e \in { x \in signed : x.message = message /\ x.key = key } }
    ELSE SigSample \ { e.signature : e \in signed }

\* A builder that hands out the descriptor it built before for the same
\* arguments.
Returned_cached(sig) ==
    IF fn = "createOrderlySignature"
    THEN ToBase64Url(sig)
    ELSE IF prev # NoCall /\ prev.pc = "returned"
         THEN prev.ret
         ELSE RequestConfig(args.method,
                            Headers(args.method, timestamp, args.accountId,
                                    args.orderlyKey, ToBase64Url(sig)),
                            bodyString)

\* A signature string that takes in the time of the call.
Returned_timed(sig) ==
    IF fn = "createOrderlySignature"
    THEN ToBase64Url(sig \o << now % 256 >>)
    ELSE RequestConfig(args.method,
                       Headers(args.method, timestamp, args.accountId,
                               args.orderlyKey,
                               ToBase64Url(sig \o << now % 256 >>)),
                       bodyString)

\* What the running function returns once the signature is there.
Returned(sig) ==
    IF fn = "createOrderlySignature"
    THEN ToBase64Url(sig)
    ELSE RequestConfig(args.method,
                       Headers(args.method, timestamp, args.accountId,
                               args.orderlyKey, ToBase64Url(sig)),
                       bodyString)

\* sign() resolves; createOrderlySignature encodes the signature and, in
\* createAuthenticatedRequest, headers and request descriptor are built.
SignResolve ==
    /\ pc = "await_sign"
    /\ Len(PrivateKeyArg) = KeyLen
    /\ \E sig \in SignatureOf(messageBytes, PrivateKeyArg) :
         /\ signature' = sig
         /\ signed' = signed \cup { [message |-> messageBytes,
                                     key |-> PrivateKeyArg, signature |-> sig] }
         /\ ret' = Returned(sig)
    /\ pc' = "returned"
    /\ UNCHANGED << now, env, fn, args, timestamp, bodyString, normalizedMessage,
                    messageBytes, signCalls, prev, deposit, op >>

Next ==
    \/ Tick
    \/ \E ts \in Clock, method \in Methods, path \in Paths,
          body \in { JsUndefined, JsString(<< >>), JsString(<< "{", "}" >>) } :
         CallNormalizeRequestMessage(ts, method, path, body)
    \/ \E method \in Methods : CallGetContentType(method)
    \/ \E message \in Messages : CallCreateOrderlySignature(message)
    \/ \E method \in Methods, path \in Paths, body \in Bodies :
         CallCreateAuthenticatedRequest(method, path, body)
    \/ SignReject
    \/ SignResolve

Spec == Init /\ [][Next]_vars

(***************************************************************************)
(* Properties.                                                             *)
(***************************************************************************)
\* The number a string of decimal digits denotes; -1 when it is no such string.
RECURSIVE ParseDecimal(_)
ParseDecimal(s) ==
    IF s = << >> THEN -1
    ELSE LET d == CharCode(s[Len(s)]) - 48
         IN  IF d < 0 \/ d > 9 THEN -1
             ELSE IF Len(s) = 1 THEN d
             ELSE LET r == ParseDecimal(SubSeq(s, 1, Len(s) - 1))
                  IN  IF r < 0 THEN -1 ELSE 10 * r + d

\* The body string by the type of the body argument.
ExpectedBody(body) ==
    CASE body.t = "string" -> body.v
      [] body.t = "object" -> JSONStringify(body)
      [] OTHER -> << >>

\* The content type by the upper-cased method.
ExpectedContentType(method) ==
    IF toUpperCase(method) \in { GET, DELETE } THEN FormUrlEncoded
    ELSE ApplicationJson

\* The header names the API asks for.
HeaderNames ==
    { "Content-Type", "orderly-timestamp", "orderly-account-id",
      "orderly-key", "orderly-signature" }

NormalizeReturned == fn = "normalizeRequestMessage" /\ pc = "returned"

RequestReturned == fn = "createAuthenticatedRequest" /\ pc = "returned"

\* s is the concatenation of the four fields, each at its own boundary.
IsConcatenation(s, ts, method, path, body) ==
    LET a == Len(s) - Len(method) - Len(path) - Len(body)
        b == a + Len(method)
        c == b + Len(path)
    IN  /\ a >= 1
        /\ ParseDecimal(SubSeq(s, 1, a)) = ts
        /\ (a > 1 => s[1] # "0")
        /\ SubSeq(s, a + 1, b) = method
        /\ SubSeq(s, b + 1, c) = path
        /\ SubSeq(s, c + 1, Len(s)) = body

\* C1 as stated: normalizeRequestMessage returns decimal(timestamp), the
\* upper-cased method, the path and the body (empty when omitted), with no
\* separators, for every method string.
C1_UppercasesMethod ==
    NormalizeReturned =>
        IsConcatenation(ret, args.timestamp, toUpperCase(args.method),
                        args.path, ExpectedBody(args.body))

\* C1 as amended: normalizeRequestMessage returns decimal(timestamp), the
\* method exactly as passed, the path and the body (empty when omitted), with
\* no separators; the result carries the upper-cased method exactly when the
\* caller passed an upper-case method.
C1_ConcatenatesAsGiven ==
    NormalizeReturned =>
        /\ IsConcatenation(ret, args.timestamp, args.method, args.path,
                           ExpectedBody(args.body))
        /\ IsConcatenation(ret, args.timestamp, toUpperCase(args.method),
                           args.path, ExpectedBody(args.body))
             <=> (args.method = toUpperCase(args.method))

C1_Witness ==
    /\ NormalizeReturned
    /\ args.method = << "g", "e", "t" >>
    /\ args.body = JsUndefined
    /\ args.timestamp >= 10

\* C2: the message createAuthenticatedRequest has signed is decimal(t), the
\* upper-cased method, the path and the body string (the string itself, the
\* JSON text of an object, empty for null or undefined), t being the one
\* timestamp of the call, which the orderly-timestamp header carries.
C2_SignedMessage ==
    /\ fn = "createAuthenticatedRequest" /\ pc \in { "await_sign", "returned" } =>
         /\ timestamp \in Clock /\ timestamp <= now
         /\ IsConcatenation(normalizedMessage, timestamp,
                            toUpperCase(args.method), args.path,
                            ExpectedBody(args.body))
         /\ messageBytes = TextEncode(normalizedMessage)
    /\ RequestReturned =>
         /\ ParseDecimal(ret["headers"]["orderly-timestamp"]) = timestamp
         /\ \E e \in signed :
              /\ e.message = messageBytes
              /\ ToBase64Url(e.signature) = ret["headers"]["orderly-signature"]

C2_Witness ==
    /\ RequestReturned
    /\ args.method = << "P", "u", "t" >>
    /\ args.body.t = "object" /\ args.body.v # << >>
    /\ timestamp > ClockStart

\* C3: a body attached to the request descriptor is the very string that is
\* the body component of the signed message.
C3_AttachedBodyIsSigned ==
    RequestReturned /\ "body" \in DOMAIN ret =>
        /\ IsConcatenation(normalizedMessage, timestamp,
                           toUpperCase(args.method), args.path, ret["body"])
        /\ \E e \in signed : e.message = TextEncode(normalizedMessage)
                             /\ e.signature = signature

C3_Witness ==
    /\ RequestReturned
    /\ "body" \in DOMAIN ret
    /\ args.body.t = "object" /\ args.body.v # << >>

\* C4 as stated: when the descriptor has no body, the body component of the
\* signed message is empty.
C4_NoBodyThenEmptySigned ==
    RequestReturned /\ "body" \notin DOMAIN ret =>
        IsConcatenation(normalizedMessage, timestamp,
                        toUpperCase(args.method), args.path, << >>)

\* C5: the content type is the form-urlencoded one exactly when the
\* upper-cased method is GET or DELETE and the JSON one otherwise, as
\* returned by getContentType and as the Content-Type header of the request,
\* whatever the body.
C5_ContentType ==
    /\ fn = "getContentType" /\ pc = "returned" =>
         /\ ret = ExpectedContentType(args.method)
         /\ ret = FormUrlEncoded <=> toUpperCase(args.method) \in { GET, DELETE }
    /\ RequestReturned =>
         ret["headers"]["Content-Type"] = ExpectedContentType(args.method)

C5_Witness ==
    /\ RequestReturned
    /\ args.method = << "g", "e", "t" >>
    /\ Truthy(args.body)
    /\ ret["headers"]["Content-Type"] = FormUrlEncoded

\* C6: the descriptor has a body exactly when the upper-cased method is POST
\* or PUT and the serialised body is not empty, and its method is the
\* upper-cased method.
C6_BodyPresence ==
    RequestReturned =>
        /\ "body" \in DOMAIN ret <=>
             /\ toUpperCase(args.method) \in { POST, PUT }
             /\ ExpectedBody(args.body) # << >>
        /\ ret["method"] = toUpperCase(args.method)
        /\ DOMAIN ret \subseteq { "method", "headers", "body" }

C6_Witness ==
    /\ RequestReturned
    /\ args.method = << "P", "u", "t" >>
    /\ "body" \in DOMAIN ret
    /\ ret["method"] = PUT

\* C7: the headers are the five named ones, the account id and the key
\* being the arguments unchanged.
C7_Headers ==
    RequestReturned =>
        /\ DOMAIN ret["headers"] = HeaderNames
        /\ ret["headers"]["orderly-account-id"] = args.accountId
        /\ ret["headers"]["orderly-key"] = args.orderlyKey

C7_Witness ==
    /\ RequestReturned
    /\ Head(args.accountId) = " "
    /\ ret["headers"]["orderly-account-id"] = args.accountId

\* C8: with a private key that is not 32 bytes long both signing functions
\* throw the error of sign() itself, after one invocation of sign(), and
\* return nothing.
C8_KeyErrorPropagates ==
    fn \in SigningFns =>
        /\ pc = "thrown" =>
             /\ ret = SignKeyError
             /\ signCalls = 1
             /\ signature = << >>
             /\ \A e \in signed : e.key # PrivateKeyArg
        /\ Len(PrivateKeyArg) # KeyLen => pc \in { "await_sign", "thrown" }

C8_Witness ==
    /\ fn = "createAuthenticatedRequest"
    /\ pc = "thrown"
    /\ Len(args.orderlyPrivateKey) # KeyLen

\* C9: a call that repeats the arguments of the call before it at another
\* millisecond returns another orderly-timestamp and another
\* orderly-signature, each signature being that of the call's own message.
C9_RepeatedCall ==
    RequestReturned /\ prev # NoCall /\ prev.pc = "returned"
    /\ prev.timestamp # timestamp =>
        /\ prev.args = args
        /\ ret["headers"]["orderly-timestamp"]
             # prev.ret["headers"]["orderly-timestamp"]
        /\ ret["headers"]["orderly-signature"]
             # prev.ret["headers"]["orderly-signature"]
        /\ prev.messageBytes # messageBytes
        /\ \E e \in signed :
              /\ e.message = messageBytes
              /\ ToBase64Url(e.signature) = ret["headers"]["orderly-signature"]
        /\ \E e \in signed :
              /\ e.message = prev.messageBytes
              /\ ToBase64Url(e.signature)
                   = prev.ret["headers"]["orderly-signature"]

C9_Witness ==
    /\ RequestReturned
    /\ prev # NoCall /\ prev.pc = "returned"
    /\ prev.args = args
    /\ prev.timestamp # timestamp

\* The signature string of the running call.
SignatureString ==
    IF fn = "createOrderlySignature" THEN ret
    ELSE ret["headers"]["orderly-signature"]

\* C10: the signature string is the base64url text of the bytes sign()
\* returned: no "=", "+" or "/", and decoding it gives those bytes back.
C10_Base64Url ==
    fn \in SigningFns /\ pc = "returned" =>
        /\ \A i \in 1..Len(SignatureString) :
              SignatureString[i] \notin { "=", "+", "/" }
        /\ Len(signature) = SigLen
        /\ FromBase64Url(SignatureString) = signature
        /\ \E e \in signed : e.message = messageBytes /\ e.signature = signature

C10_Witness ==
    /\ fn = "createOrderlySignature"
    /\ pc = "returned"
    /\ \E i, j \in 1..Len(ret) : ret[i] = "-" /\ ret[j] = "_"

AmountBits == 3

\* for (let i = 0; i < 10; i++)
PollLimit == 10

\* if (i === 9) throw
PollLastIndex == 9

\* The chain ids USDC_ADDRESSES, ORDERLY_VAULT and RPC_URLS have an entry for.
USDC_ADDRESSES ==
    { 1, 11155111, 42161, 421614, 10, 11155420, 8453, 84532, 5000, 5003, 56, 97 }

ORDERLY_VAULT ==
    { 1, 11155111, 42161, 421614, 10, 11155420, 8453, 84532, 5000, 5003, 56, 97 }

RPC_URLS ==
    { 1, 11155111, 42161, 421614, 10, 11155420, 8453, 84532, 5000, 5003, 56, 97 }

\* CHAIN_ID when the environment sets none.
DefaultChainId == 80001

\* const usdcAddress = USDC_ADDRESSES[chainId]; if (!usdcAddress) throw, and
\* likewise for the two other tables: the lookup finds an address or a URL.
Configured_always(table, chainId) == TRUE

Configured(table, chainId) == chainId \in table

\* ethers.parseUnits for an amount of whole tokens.
ParseUnits(amount, decimals) == amount * 10 ^ decimals

\* BigInt(amountWei.toString()) & BigInt("0xFF...FF"), the mask AmountBits wide.
TokenAmount(amountWei) == amountWei % 2 ^ AmountBits

\* if (balance < amountWei) throw
InsufficientBalance_lenient(balance, amountWei) == balance + 1 < amountWei

InsufficientBalance(balance, amountWei) == balance < amountWei

\* if (currentAllowance < amountWei) { approve ... }
NeedsApproval_eager(currentAllowance, amountWei) == currentAllowance <= amountWei

NeedsApproval(currentAllowance, amountWei) == currentAllowance < amountWei

\* if (verifiedAllowance >= amountWei) break
AllowanceVerified(verifiedAllowance, amountWei) == verifiedAllowance >= amountWei

\* if (i === 9) throw
PollExhausted_late(i) == i = PollLimit

PollExhausted(i) == i = PollLastIndex

\* The condition of the for loop.
PollContinues(i) == i < PollLimit

\* Inputs of depositUSDC.
DepositChainIds == { 421614, DefaultChainId }

DepositAmounts == { 0, 1, 2 ^ AmountBits - 1, 2 ^ AmountBits, 2 ^ AmountBits + 1 }

\* What a balance or allowance read may return: values around the amount.
ChainValues(amountWei) ==
    { v \in { 0, amountWei - 1, amountWei, amountWei + 1 } : v >= 0 }

\* new Error(what)
Error(what) == [error |-> what]

\* The positions at which depositUSDC awaits a call on the chain.
ChainCallPcs ==
    { "decimals", "balanceOf", "allowance", "approve", "approveWait",
      "pollAllowance", "getDepositFee", "depositTx", "depositWait" }

DepositInit ==
    /\ now = ClockStart
    /\ env = CHOOSE e \in [accountId : AccountIds, orderlyKey : OrderlyKeys,
                           orderlyPrivateKey : PrivateKeys] : TRUE
    /\ pc = "idle"
    /\ fn = "none"
    /\ args = NoValue
    /\ timestamp = 0
    /\ bodyString = << >>
    /\ normalizedMessage = << >>
    /\ messageBytes = << >>
    /\ signCalls = 0
    /\ signature = << >>
    /\ ret = NoValue
    /\ prev = NoCall
    /\ signed = {}
    /\ op = NoOperation
    /\ \E amount \in DepositAmounts, chainId \in DepositChainIds,
          vaultEnv \in BOOLEAN :
         deposit = [pc |-> "start", amount |-> amount, chainId |-> chainId,
                    vaultEnv |-> vaultEnv, provider |-> FALSE,
                    amountWei |-> -1, balance |-> -1,
                    currentAllowance |-> -1, verifiedAllowance |-> -1,
                    i |-> 0, reads |-> 0, delays |-> 0, approves |-> << >>,
                    tokenAmount |-> -1, deposits |-> << >>, ret |-> NoValue]

DepositFrame ==
    UNCHANGED << now, env, pc, fn, args, timestamp, bodyString, normalizedMessage,
                 messageBytes, signCalls, signature, ret, prev, signed, op >>

\* Lines 155-193: the configuration of the chain is looked up, then the
\* provider is created and decimals() is called.
DepositStart ==
    /\ deposit.pc = "start"
    /\ deposit' =
         IF ~Configured(USDC_ADDRESSES, deposit.chainId)
         THEN [deposit EXCEPT !.pc = "thrown",
                              !.ret = Error("USDC address not configured")]
         ELSE IF ~deposit.vaultEnv /\ ~Configured(ORDERLY_VAULT, deposit.chainId)
         THEN [deposit EXCEPT !.pc = "thrown",
                              !.ret = Error("Orderly Vault address not configured")]
         ELSE IF ~Configured(RPC_URLS, deposit.chainId)
         THEN [deposit EXCEPT !.pc = "thrown",
                              !.ret = Error("RPC_URL is required")]
         ELSE [deposit EXCEPT !.provider = TRUE, !.pc = "decimals"]
    /\ DepositFrame

\* An awaited chain call rejects: the catch block rethrows the error.
ChainCallRejects ==
    /\ deposit.pc \in ChainCallPcs
    /\ deposit' = [deposit EXCEPT !.pc = "thrown", !.ret = Error("chain call rejected")]
    /\ DepositFrame

\* Lines 193-201: decimals() returns, the amount is converted and balanceOf()
\* is called.
DecimalsReturns(decimals) ==
    /\ deposit.pc = "decimals"
    /\ deposit' = [deposit EXCEPT !.amountWei = ParseUnits(deposit.amount, decimals),
                                  !.pc = "balanceOf"]
    /\ DepositFrame

\* Lines 201-225: balanceOf() returns; the balance is checked and allowance()
\* is called.
BalanceReturns(balance) ==
    /\ deposit.pc = "balanceOf"
    /\ deposit' =
         IF InsufficientBalance(balance, deposit.amountWei)
         THEN [deposit EXCEPT !.balance = balance, !.pc = "thrown",
                              !.ret = Error("Insufficient balance")]
         ELSE [deposit EXCEPT !.balance = balance, !.pc = "allowance"]
    /\ DepositFrame

\* Lines 258-283: the deposit data are prepared and getDepositFee() is called.
PrepareDeposit(d) ==
    [d EXCEPT !.tokenAmount = TokenAmount(d.amountWei), !.pc = "getDepositFee"]

\* Lines 222-232: allowance() returns; approve() is sent when the allowance
\* does not cover the amount.
AllowanceReturns(allowance) ==
    /\ deposit.pc = "allowance"
    /\ deposit' =
         IF NeedsApproval(allowance, deposit.amountWei)
         THEN [deposit EXCEPT !.currentAllowance = allowance,
                              !.approves = Append(@, deposit.amountWei),
                              !.pc = "approve"]
         ELSE PrepareDeposit([deposit EXCEPT !.currentAllowance = allowance])
    /\ DepositFrame

\* Lines 232-234: approve() returns the transaction, whose wait() is awaited.
ApproveReturns ==
    /\ deposit.pc = "approve"
    /\ deposit' = [deposit EXCEPT !.pc = "approveWait"]
    /\ DepositFrame

\* Lines 234-239: the approval is confirmed; the poll starts with i = 0 and
\* its first read of the allowance.
ApproveConfirmed ==
    /\ deposit.pc = "approveWait"
    /\ deposit' = [deposit EXCEPT !.i = 0, !.reads = @ + 1,
                                  !.pc = "pollAllowance"]
    /\ DepositFrame

\* Lines 239-252: a read of the poll returns.
PollAllowanceReturns(allowance) ==
    /\ deposit.pc = "pollAllowance"
    /\ deposit' =
         IF AllowanceVerified(allowance, deposit.amountWei)
         THEN PrepareDeposit([deposit EXCEPT !.verifiedAllowance = allowance])
         ELSE IF PollExhausted(deposit.i)
         THEN [deposit EXCEPT !.verifiedAllowance = allowance, !.pc = "thrown",
                              !.ret = Error("Allowance verification failed")]
         ELSE [deposit EXCEPT !.verifiedAllowance = allowance,
                              !.delays = @ + 1, !.pc = "pollDelay"]
    /\ DepositFrame

\* Lines 252, 238-239: the timer fires, i++, and the loop reads again or ends.
PollDelayElapsed ==
    /\ deposit.pc = "pollDelay"
    /\ deposit' =
         IF PollContinues(deposit.i + 1)
         THEN [deposit EXCEPT !.i = @ + 1, !.reads = @ + 1,
                              !.pc = "pollAllowance"]
         ELSE PrepareDeposit([deposit EXCEPT !.i = @ + 1])
    /\ DepositFrame

\* Lines 283-291: getDepositFee() returns and the deposit transaction is sent.
DepositFeeReturns(fee) ==
    /\ deposit.pc = "getDepositFee"
    /\ deposit' = [deposit EXCEPT
                     !.deposits = Append(@, [tokenAmount |-> deposit.tokenAmount,
                                             value |-> fee]),
                     !.pc = "depositTx"]
    /\ DepositFrame

\* Lines 291-296: deposit() returns the transaction, whose wait() is awaited.
DepositTxReturns ==
    /\ deposit.pc = "depositTx"
    /\ deposit' = [deposit EXCEPT !.pc = "depositWait"]
    /\ DepositFrame

\* Lines 296-307: the deposit is confirmed and the result is returned.
DepositConfirmed ==
    /\ deposit.pc = "depositWait"
    /\ deposit' = [deposit EXCEPT !.pc = "returned",
                                  !.ret = [success |-> TRUE,
                                           amount |-> deposit.amount]]
    /\ DepositFrame

DepositNext ==
    \/ DepositStart
    \/ ChainCallRejects
    \/ \E decimals \in { 0, 1 } : DecimalsReturns(decimals)
    \/ \E balance \in ChainValues(deposit.amountWei) : BalanceReturns(balance)
    \/ \E allowance \in ChainValues(deposit.amountWei) : AllowanceReturns(allowance)
    \/ ApproveReturns
    \/ ApproveConfirmed
    \/ \E allowance \in ChainValues(deposit.amountWei) :
         PollAllowanceReturns(allowance)
    \/ PollDelayElapsed
    \/ \E fee \in { 0, 1 } : DepositFeeReturns(fee)
    \/ DepositTxReturns
    \/ DepositConfirmed

\* Every awaited call settles and every timer fires.
SpecDeposit == DepositInit /\ [][DepositNext]_vars /\ WF_vars(DepositNext)

(***************************************************************************)
(* Properties of depositUSDC.                                              *)
(***************************************************************************)
PollPcs == { "pollAllowance", "pollDelay" }

\* The poll was entered and has been left.
PollLeft == deposit.pc # "none" /\ deposit.reads > 0 /\ deposit.pc \notin PollPcs

PollVerified ==
    /\ deposit.verifiedAllowance # -1
    /\ deposit.verifiedAllowance >= deposit.amountWei

PollGaveUp ==
    /\ deposit.pc = "thrown"
    /\ deposit.ret = Error("Allowance verification failed")
    /\ deposit.reads = PollLimit
    /\ deposit.verifiedAllowance < deposit.amountWei

C18_DepositAfterChecks ==
    deposit.pc # "none" =>
      /\ deposit.deposits # << >> =>
           /\ deposit.balance # -1
           /\ deposit.balance >= deposit.amountWei
           /\ \/ /\ deposit.currentAllowance # -1
                 /\ deposit.currentAllowance >= deposit.amountWei
              \/ PollVerified
      /\ deposit.balance # -1 /\ deposit.balance < deposit.amountWei =>
           /\ deposit.pc = "thrown"
           /\ deposit.ret = Error("Insufficient balance")
           /\ deposit.approves = << >>
           /\ deposit.deposits = << >>

C18_Witness ==
    /\ deposit.pc = "returned"
    /\ Len(deposit.deposits) = 1
    /\ deposit.balance = deposit.amountWei
    /\ deposit.currentAllowance < deposit.amountWei
    /\ PollVerified

\* C19: approve is sent exactly when the allowance read first is strictly
\* below amountWei, at most once, and for exactly amountWei.
C19_ApproveIffNeeded ==
    deposit.pc # "none" =>
      /\ Len(deposit.approves) <= 1
      /\ \A k \in 1..Len(deposit.approves) :
           deposit.approves[k] = deposit.amountWei
      /\ deposit.approves # << >> <=>
           /\ deposit.currentAllowance # -1
           /\ deposit.currentAllowance < deposit.amountWei

C19_Witness ==
    /\ deposit.pc = "approve"
    /\ deposit.approves = << deposit.amountWei >>
    /\ deposit.currentAllowance = deposit.amountWei - 1

\* C20: the tokenAmount of the deposit data equals amountWei, the amount the
\* balance and the allowance were checked against, for every amount.
C20_TokenAmountIsAmountWei ==
    deposit.pc # "none" =>
      /\ deposit.tokenAmount # -1 => deposit.tokenAmount = deposit.amountWei
      /\ \A k \in 1..Len(deposit.deposits) :
           deposit.deposits[k].tokenAmount = deposit.amountWei

ConfigurationErrors ==
    { Error("USDC address not configured"),
      Error("Orderly Vault address not configured"),
      Error("RPC_URL is required") }

\* C21: for a chain id without a USDC address, without a vault address (and
\* without the ORDERLY_VAULT override) or without an RPC URL, depositUSDC
\* throws a configuration error; no provider is created and it never awaits
\* a call on the chain.
C21_ConfigurationErrorFirst ==
    /\ deposit.pc # "none"
    /\ \/ deposit.chainId \notin USDC_ADDRESSES
       \/ ~deposit.vaultEnv /\ deposit.chainId \notin ORDERLY_VAULT
       \/ deposit.chainId \notin RPC_URLS
    => /\ deposit.pc \in { "start", "thrown" }
       /\ deposit.pc = "thrown" => deposit.ret \in ConfigurationErrors
       /\ ~deposit.provider
       /\ deposit.amountWei = -1 /\ deposit.balance = -1
       /\ deposit.currentAllowance = -1 /\ deposit.reads = 0
       /\ deposit.approves = << >> /\ deposit.deposits = << >>

C21_Witness ==
    /\ deposit.pc = "thrown"
    /\ deposit.chainId = DefaultChainId
    /\ deposit.ret = Error("USDC address not configured")
    /\ ~deposit.provider

(***************************************************************************)
(* The operation scripts: strings, URLs and values.                        *)
(***************************************************************************)
\* The scaled length of a day: the scripts count time in milliseconds, of
\* which a day has 86400000.
DayTicks == 1

\* const expirationDays = 365
ExpirationDays == 365

ORDERLY_API_URL == << "h", "t", "t", "p", "s", ":", "/", "/", "a", "p", "i", ".", "o", "r",
        "d", "e", "r", "l", "y", ".", "o", "r", "g" >>

BROKER_ID == << "w", "o", "o", "f", "i", "_", "p", "r", "o" >>

VERIFYING_CONTRACT == << "0", "x", "C", "c", "C", "C", "c", "c", "c", "c", "C", "C", "C", "C",
        "c", "C", "C", "C", "C", "C", "C", "c", "C", "c", "C", "c", "c", "C", "c", "C", "C",
                "C", "c", "C", "c", "c", "c", "c", "c", "c", "c", "C" >>

WITHDRAW_VERIFYING_CONTRACT == << "0", "x", "6", "F", "7", "a", "3", "3", "8", "F", "2", "a",
        "A", "4", "7", "2", "8", "3", "8", "d", "E", "F", "D", "3", "2", "8", "3", "e", "B",
                "3", "6", "0", "d", "4", "D", "f", "f", "5", "D", "2", "0", "3" >>

\* TOKEN_DECIMALS[token.toUpperCase()] || 18
TOKEN_DECIMALS(token) ==
    IF toUpperCase(token) \in { << "U", "S", "D", "C" >>, << "U", "S", "D", "T" >> } THEN 6 ELSE 18

\* URLSearchParams serialization of a name or value (ASCII text): letters,
\* digits and *-._ stay, a space becomes +, the rest is percent-encoded.
RECURSIVE FormEncode(_)
FormEncode(s) ==
    LET HexDigits ==
            << "0", "1", "2", "3", "4", "5", "6", "7",
               "8", "9", "A", "B", "C", "D", "E", "F" >>
        FormUnreserved(c) ==
            \/ CharCode(c) \in 48..57
            \/ CharCode(c) \in 65..90
            \/ CharCode(c) \in 97..122
            \/ c \in { "*", "-", ".", "_" }
        PercentEncode(c) ==
            << "%", HexDigits[(CharCode(c) \div 16) + 1],
               HexDigits[(CharCode(c) % 16) + 1] >>
    IN  IF s = << >> THEN << >>
        ELSE (IF Head(s) = " " THEN << "+" >>
              ELSE IF FormUnreserved(Head(s)) THEN << Head(s) >>
              ELSE PercentEncode(Head(s)))
             \o FormEncode(Tail(s))

\* URLSearchParams.prototype.toString: name=value pairs in append order.
RECURSIVE URLSearchParamsToString(_)
URLSearchParamsToString(params) ==
    IF params = << >> THEN << >>
    ELSE FormEncode(params[1][1]) \o << "=" >> \o FormEncode(params[1][2])
         \o (IF Len(params) > 1 THEN << "&" >> ELSE << >>)
         \o URLSearchParamsToString(Tail(params))

\* obj.key and obj?.key: undefined when obj is no object or has no such key.
Get(obj, key) ==
    IF obj.t = "object" /\ \E i \in 1..Len(obj.v) : obj.v[i][1] = key
    THEN obj.v[CHOOSE i \in 1..Len(obj.v) : obj.v[i][1] = key][2]
    ELSE JsUndefined

\* x.toString() of a number or a string.
toString(x) == IF x.t = "number" THEN NumberToString(x.v) ELSE x.v

\* a || b
Or(a, b) == IF Truthy(a) THEN a ELSE b

\* The URL fetch() is given for a path: `${ORDERLY_API_URL}${path}`.
FetchUrl_noQuery(path) ==
    ORDERLY_API_URL
      \o SubSeq(path, 1,
                IF \E i \in 1..Len(path) : path[i] = "?"
                THEN (CHOOSE i \in 1..Len(path) :
                        path[i] = "?" /\ \A j \in 1..(i - 1) : path[j] # "?") - 1
                ELSE Len(path))

FetchUrl(path) == ORDERLY_API_URL \o path

\* The wallet of the invocation.
WalletAddress == << "0", "x", "W", "1" >>

\* What generateOrderlyKey may return.
GeneratedKeys ==
    { [orderlyKey |-> << "e", "d", "2", "5", "5", "1", "9", ":", "N", "E", "W" >>,
            privateKeyHex |-> << "0", "x", "0", "7", "0", "7" >>] }

\* What wallet.signTypedData may return.
WalletSignatures == { << "0", "x", "5", "1" >>, << "0", "x", "5", "2" >> }

\* JSON payloads of the server: success, data, withdrawNonce, nonce.
Payloads ==
    LET Payload(success, data, withdrawNonce, nonce) ==
            JsObject(<< << << "s", "u", "c", "c", "e", "s", "s" >>, success >>, << << "d", "a",
                    "t", "a" >>, data >>,
                        << << "w", "i", "t", "h", "d", "r", "a", "w", "N", "o", "n", "c",
                                "e" >>, withdrawNonce >>,
                        << << "n", "o", "n", "c", "e" >>, nonce >> >>)
    IN  { Payload(JsBoolean(TRUE), JsObject(<< >>), JsUndefined, JsUndefined),
          Payload(JsBoolean(FALSE), JsUndefined, JsUndefined, JsUndefined),
          Payload(JsUndefined, JsObject(<< >>), JsUndefined, JsUndefined),
          Payload(JsBoolean(TRUE),
                  JsObject(<< << << "r", "e", "g", "i", "s", "t", "r", "a", "t", "i", "o", "n",
                          "_", "n", "o", "n", "c", "e" >>, JsNumber(7) >>,
                              << << "w", "i", "t", "h", "d", "r", "a", "w", "_", "n", "o", "n",
                                      "c", "e" >>, JsNumber(5) >> >>),
                  JsUndefined, JsUndefined),
          Payload(JsBoolean(TRUE),
                  JsObject(<< << << "w", "i", "t", "h", "d", "r", "a", "w", "_", "n", "o", "n",
                          "c", "e" >>, JsNumber(0) >>,
                              << << "n", "o", "n", "c", "e" >>, JsNumber(6) >> >>),
                  JsUndefined, JsUndefined),
          Payload(JsBoolean(TRUE),
                  JsObject(<< << << "w", "i", "t", "h", "d", "r", "a", "w", "_", "n", "o", "n",
                          "c", "e" >>, JsNumber(0) >> >>),
                  JsUndefined, JsUndefined),
          Payload(JsBoolean(TRUE), JsUndefined, JsUndefined, JsNumber(3)) }

\* A response: its status (response.ok) and its parsed JSON payload.
Responses == [ok : BOOLEAN, payload : Payloads]

\* The environments an operation script may run in: complete, or with a
\* missing ACCOUNT_ID, ORDERLY_KEY or ORDERLY_PRIVATE_KEY.
CompleteEnvs ==
    [accountId : AccountIds, orderlyKey : OrderlyKeys, orderlyPrivateKey : PrivateKeys]

OpEnvs ==
    CompleteEnvs
      \cup UNION { { [e EXCEPT !.accountId = << >>],
                     [e EXCEPT !.orderlyKey = << >>],
                     [e EXCEPT !.orderlyPrivateKey = << >>] } :
                     e \in { x \in CompleteEnvs :
                               x.accountId = << "0", "x", "a", "1" >>
                               /\ Len(x.orderlyPrivateKey) = KeyLen } }

\* The order parameters of the createOrder invocations.
OrderParamsSet ==
    LET OrderParams(symbol, orderType, side, orderPrice, orderQuantity, orderAmount) ==
            { [symbol |-> symbol, orderType |-> orderType, side |-> side,
               orderPrice |-> orderPrice, orderQuantity |-> orderQuantity,
               orderAmount |-> orderAmount, reduceOnly |-> reduceOnly] :
                reduceOnly \in { JsUndefined, JsBoolean(TRUE) } }
    IN  UNION {
              OrderParams(<< "E", "_", "U" >>, << "l", "i", "m", "i", "t" >>, << "b", "u",
                      "y" >>, JsNumber(2), JsNumber(1), JsUndefined),
              OrderParams(<< "E", "_", "U" >>, << "M", "A", "R", "K", "E", "T" >>, << "B", "U",
                      "Y" >>, JsUndefined, JsUndefined, JsNumber(5)),
              OrderParams(<< "E", "_", "U" >>, << "M", "A", "R", "K", "E", "T" >>, << "S", "E",
                      "L", "L" >>, JsUndefined, JsUndefined, JsNumber(5)),
              OrderParams(<< >>, << "L", "I", "M", "I", "T" >>, << "B", "U", "Y" >>,
                      JsNumber(2), JsNumber(1), JsUndefined),
              OrderParams(<< "E", "_", "U" >>, << "S", "T", "O", "P" >>, << "B", "U", "Y" >>,
                      JsNumber(2), JsNumber(1), JsUndefined),
              OrderParams(<< "E", "_", "U" >>, << "L", "I", "M", "I", "T" >>, << "H", "O", "L",
                      "D" >>, JsNumber(2), JsNumber(1), JsUndefined),
              OrderParams(<< "E", "_", "U" >>, << "L", "I", "M", "I", "T" >>, << "S", "E", "L",
                      "L" >>, JsUndefined, JsNumber(1), JsUndefined),
              OrderParams(<< "E", "_", "U" >>, << "A", "S", "K" >>, << "S", "E", "L", "L" >>,
                      JsUndefined, JsUndefined, JsUndefined),
              OrderParams(<< "E", "_", "U" >>, << "B", "I", "D" >>, << "B", "U", "Y" >>,
                      JsUndefined, JsNumber(1), JsUndefined),
              OrderParams(<< "E", "_", "U" >>, << "b", "i", "d" >>, << "s", "e", "l", "l" >>,
                      JsUndefined, JsNumber(1), JsUndefined) }

\* The filters of the getOrders invocations.
FilterParamsSet ==
    LET FilterParams(symbol, side, status, orderTag, page, size) ==
            [symbol |-> symbol, side |-> side, orderType |-> JsUndefined,
             status |-> status, orderTag |-> orderTag, startT |-> JsUndefined,
             endT |-> JsUndefined, page |-> page, size |-> size,
             sortBy |-> JsUndefined]
    IN  { FilterParams(JsUndefined, JsUndefined, JsUndefined, JsUndefined,
                       JsUndefined, JsUndefined),
          FilterParams(JsString(<< "A", "&", "b", " ", "c" >>), JsString(<< "b", "u", "y" >>),
                  JsUndefined,
                       JsUndefined, JsUndefined, JsUndefined),
          FilterParams(JsUndefined, JsUndefined, JsString(<< "n", "e", "w" >>),
                       JsString(<< "t", "/", "1" >>), JsNumber(1), JsNumber(0)) }

\* A file of the working directory: absent, or present with its content.
File(content) == [exists |-> TRUE, content |-> content]

NoFile == [exists |-> FALSE, content |-> << >>]

\* The .env files addOrderlyKey may find.
EnvFiles ==
    { NoFile,
      File(<< >>),
      File(<< "O", "R", "D", "E", "R", "L", "Y", "_", "K", "E", "Y", "=",
              "o" >> \o << "\n" >> \o << "O", "R", "D", "E", "R", "L", "Y", "_", "P", "R", "I",
                      "V", "A", "T", "E", "_", "K", "E", "Y", "=", "p" >> \o << "\n" >>),
      File(<< "A", "=", "1" >> \o << "\n" >> \o << "O", "R", "D", "E", "R", "L", "Y", "_", "K",
              "E", "Y", "=", "o" >> \o << "\n" >>
             \o << "O", "R", "D", "E", "R", "L", "Y", "_", "P", "R", "I", "V", "A", "T", "E",
                     "_", "K", "E", "Y", "=", "p" >> \o << "\n" >>),
      File(<< "O", "R", "D", "E", "R", "L", "Y", "_", "P", "R", "I", "V", "A", "T", "E", "_",
              "K", "E", "Y", "=", "p" >> \o << "\n" >> \o << "A", "=", "1" >>),
      File(<< "O", "R", "D", "E", "R", "L", "Y", "_", "K", "E", "Y", "=", "o" >>) }

\* The invocations of the operation functions.
Invocations ==
    { [name |-> "createOrder", params |-> p] : p \in OrderParamsSet }
      \cup { [name |-> "cancelOrder",
              params |-> [orderId |-> JsNumber(n), symbol |-> s]] :
               n \in { 0, 12 }, s \in { << "E", "_", "U" >>, << "A", "&", "b", " ", "c" >> } }
      \cup { [name |-> "getOrders", params |-> p] : p \in FilterParamsSet }
      \cup { [name |-> "removeOrderlyKey",
              params |-> [orderlyKeyToRemove |-> << "e", "d", "2", "5", "5", "1", "9", ":",
                      "O", "L", "D" >>]] }
      \cup { [name |-> "withdrawFunds",
              params |-> [amount |-> 2, token |-> << "U", "S", "D", "C" >>, targetChainId |-> c,
                          brokerId |-> BROKER_ID]] :
               c \in DepositChainIds }
      \cup { [name |-> "registerAccount",
              params |-> [brokerId |-> BROKER_ID, chainId |-> c]] :
               c \in DepositChainIds }
      \cup { [name |-> "addOrderlyKey",
              params |-> [brokerId |-> BROKER_ID, chainId |-> c, envFile |-> f]] :
               c \in DepositChainIds, f \in EnvFiles }

(***************************************************************************)
(* The operation scripts: what each builds.                                *)
(***************************************************************************)
\* A list of order types that has STOP as well.
validOrderTypes_withStop ==
    { << "L", "I", "M", "I", "T" >>, << "M", "A", "R", "K", "E", "T" >>, << "I", "O", "C" >>,
            << "F", "O", "K" >>, << "P", "O", "S", "T", "_", "O", "N", "L", "Y" >>, << "A",
                    "S", "K" >>, << "B", "I", "D" >>,
      << "S", "T", "O", "P" >> }

validOrderTypes ==
    { << "L", "I", "M", "I", "T" >>, << "M", "A", "R", "K", "E", "T" >>, << "I", "O", "C" >>,
            << "F", "O", "K" >>, << "P", "O", "S", "T", "_", "O", "N", "L", "Y" >>, << "A",
                    "S", "K" >>, << "B", "I", "D" >> }

\* create-order.js 75-130: the error the validations throw, "none" when the
\* order passes them.
OrderValidationError(p) ==
    LET orderTypeUpper == toUpperCase(p.orderType)
        sideUpper == toUpperCase(p.side)
    IN  IF p.symbol = << >> \/ p.orderType = << >> \/ p.side = << >>
        THEN "Missing required fields"
        ELSE IF orderTypeUpper \notin validOrderTypes
        THEN "Invalid order type"
        ELSE IF sideUpper \notin { << "B", "U", "Y" >>, << "S", "E", "L", "L" >> }
        THEN "Invalid side"
        ELSE IF orderTypeUpper \in { << "L", "I", "M", "I", "T" >>, << "I", "O", "C" >>,
                << "F", "O", "K" >>, << "P", "O", "S", "T", "_", "O", "N", "L", "Y" >> }
                /\ p.orderPrice.t = "undefined"
        THEN "orderPrice is required"
        ELSE IF p.orderQuantity.t = "undefined" /\ p.orderAmount.t = "undefined"
        THEN "Either orderQuantity or orderAmount must be provided"
        ELSE IF orderTypeUpper \in { << "M", "A", "R", "K", "E", "T" >>, << "B", "I", "D" >>,
                << "A", "S", "K" >> }
                /\ sideUpper = << "S", "E", "L", "L" >> /\ p.orderAmount.t # "undefined"
        THEN "orderAmount is not supported for SELL orders"
        ELSE IF orderTypeUpper \in { << "M", "A", "R", "K", "E", "T" >>, << "B", "I", "D" >>,
                << "A", "S", "K" >> }
                /\ sideUpper = << "B", "U", "Y" >> /\ p.orderQuantity.t # "undefined"
        THEN "orderQuantity is not supported for BUY orders"
        ELSE "none"

\* A request body without reduce_only.
OrderRequestBody_noReduceOnly(p) ==
    JsObject(SelectSeq(
        << << << "s", "y", "m", "b", "o", "l" >>, JsString(p.symbol) >>,
           << << "o", "r", "d", "e", "r", "_", "t", "y", "p", "e" >>,
                   JsString(toUpperCase(p.orderType)) >>,
           << << "s", "i", "d", "e" >>, JsString(toUpperCase(p.side)) >>,
           << << "o", "r", "d", "e", "r", "_", "p", "r", "i", "c", "e" >>, p.orderPrice >>,
           << << "o", "r", "d", "e", "r", "_", "q", "u", "a", "n", "t", "i", "t", "y" >>,
                   p.orderQuantity >>,
           << << "o", "r", "d", "e", "r", "_", "a", "m", "o", "u", "n", "t" >>, p.orderAmount >> >>,
        JsonDefined))

\* create-order.js 56-70, 133-169: the request body; a property is set only
\* when its value is not undefined, and reduceOnly defaults to false.
OrderRequestBody(p) ==
    JsObject(SelectSeq(
        << << << "s", "y", "m", "b", "o", "l" >>, JsString(p.symbol) >>,
           << << "o", "r", "d", "e", "r", "_", "t", "y", "p", "e" >>,
                   JsString(toUpperCase(p.orderType)) >>,
           << << "s", "i", "d", "e" >>, JsString(toUpperCase(p.side)) >>,
           << << "o", "r", "d", "e", "r", "_", "p", "r", "i", "c", "e" >>, p.orderPrice >>,
           << << "o", "r", "d", "e", "r", "_", "q", "u", "a", "n", "t", "i", "t", "y" >>,
                   p.orderQuantity >>,
           << << "o", "r", "d", "e", "r", "_", "a", "m", "o", "u", "n", "t" >>, p.orderAmount >>,
           << << "r", "e", "d", "u", "c", "e", "_", "o", "n", "l", "y" >>,
              IF p.reduceOnly.t = "undefined" THEN JsBoolean(FALSE)
              ELSE p.reduceOnly >> >>,
        JsonDefined))

\* cancel-order.js 53-57.
CancelOrderPath(p) ==
    << "/", "v", "1", "/", "o", "r", "d", "e", "r", "?" >>
      \o URLSearchParamsToString(<< << << "o", "r", "d", "e", "r", "_", "i", "d" >>,
              toString(p.orderId) >>,
                                    << << "s", "y", "m", "b", "o", "l" >>, p.symbol >> >>)

\* get-orders 66-76: the parameters appended, in the order of the appends.
OrdersQuery(f) ==
    LET Appended(e) == e[1]
        candidates ==
            SelectSeq(
                << << Truthy(f.symbol), << "s", "y", "m", "b", "o", "l" >>, toString(f.symbol) >>,
                   << Truthy(f.side), << "s", "i", "d", "e" >>, toUpperCase(toString(f.side)) >>,
                   << Truthy(f.orderType), << "o", "r", "d", "e", "r", "_", "t", "y", "p", "e" >>,
                      toUpperCase(toString(f.orderType)) >>,
                   << Truthy(f.status), << "s", "t", "a", "t", "u", "s" >>,
                           toUpperCase(toString(f.status)) >>,
                   << Truthy(f.orderTag), << "o", "r", "d", "e", "r", "_", "t", "a", "g" >>,
                           toString(f.orderTag) >>,
                   << f.startT.t # "undefined", << "s", "t", "a", "r", "t", "_", "t" >>,
                           toString(f.startT) >>,
                   << f.endT.t # "undefined", << "e", "n", "d", "_", "t" >>, toString(f.endT) >>,
                   << f.page.t # "undefined", << "p", "a", "g", "e" >>, toString(f.page) >>,
                   << f.size.t # "undefined", << "s", "i", "z", "e" >>, toString(f.size) >>,
                   << Truthy(f.sortBy), << "s", "o", "r", "t", "_", "b", "y" >>,
                      toUpperCase(toString(f.sortBy)) >> >>,
                Appended)
    IN  [i \in 1..Len(candidates) |-> << candidates[i][2], candidates[i][3] >>]

\* get-orders 78.
OrdersPath(f) ==
    << "/", "v", "1", "/", "o", "r", "d", "e", "r", "s" >>
      \o (IF URLSearchParamsToString(OrdersQuery(f)) # << >>
          THEN << "?" >> \o URLSearchParamsToString(OrdersQuery(f))
          ELSE << >>)

\* check-account.js 38-43: url.toString().
CheckAccountUrl(userAddress, brokerId) ==
    ORDERLY_API_URL \o << "/", "v", "1", "/", "g", "e", "t", "_", "a", "c", "c", "o", "u", "n",
            "t", "?" >>
      \o URLSearchParamsToString(<< << << "a", "d", "d", "r", "e", "s", "s" >>, userAddress >>,
                                    << << "b", "r", "o", "k", "e", "r", "_", "i", "d" >>,
                                            brokerId >>,
                                    << << "c", "h", "a", "i", "n", "_", "t", "y", "p", "e" >>,
                                            << "E", "V", "M" >> >> >>)

\* The EIP-712 domain of the scripts.
Domain(chainId, verifyingContract) ==
    JsObject(<< << << "n", "a", "m", "e" >>, JsString(<< "O", "r", "d", "e", "r", "l", "y" >>) >>,
                << << "v", "e", "r", "s", "i", "o", "n" >>, JsString(<< "1" >>) >>,
                << << "c", "h", "a", "i", "n", "I", "d" >>, JsNumber(chainId) >>,
                << << "v", "e", "r", "i", "f", "y", "i", "n", "g", "C", "o", "n", "t", "r",
                        "a", "c", "t" >>, JsString(verifyingContract) >> >>)

\* A message that carries a nonce of its own.
RegistrationMessage_ownNonce(brokerId, chainId, ts, registrationNonce) ==
    JsObject(<< << << "b", "r", "o", "k", "e", "r", "I", "d" >>, JsString(brokerId) >>,
                << << "c", "h", "a", "i", "n", "I", "d" >>, JsNumber(chainId) >>,
                << << "t", "i", "m", "e", "s", "t", "a", "m", "p" >>, JsNumber(ts) >>,
                << << "r", "e", "g", "i", "s", "t", "r", "a", "t", "i", "o", "n", "N", "o",
                        "n", "c", "e" >>, JsNumber(1) >> >>)

\* register-account.js 79-84.
RegistrationMessage(brokerId, chainId, ts, registrationNonce) ==
    JsObject(<< << << "b", "r", "o", "k", "e", "r", "I", "d" >>, JsString(brokerId) >>,
                << << "c", "h", "a", "i", "n", "I", "d" >>, JsNumber(chainId) >>,
                << << "t", "i", "m", "e", "s", "t", "a", "m", "p" >>, JsNumber(ts) >>,
                << << "r", "e", "g", "i", "s", "t", "r", "a", "t", "i", "o", "n", "N", "o",
                        "n", "c", "e" >>, registrationNonce >> >>)

\* add-orderly-key.js 85-97.
AddOrderlyKeyMessage(brokerId, chainId, orderlyKey, ts) ==
    JsObject(<< << << "b", "r", "o", "k", "e", "r", "I", "d" >>, JsString(brokerId) >>,
                << << "c", "h", "a", "i", "n", "I", "d" >>, JsNumber(chainId) >>,
                << << "o", "r", "d", "e", "r", "l", "y", "K", "e", "y" >>, JsString(orderlyKey) >>,
                << << "s", "c", "o", "p", "e" >>, JsString(<< "r", "e", "a", "d", ",", "t",
                        "r", "a", "d", "i", "n", "g" >>) >>,
                << << "t", "i", "m", "e", "s", "t", "a", "m", "p" >>, JsNumber(ts) >>,
                << << "e", "x", "p", "i", "r", "a", "t", "i", "o", "n" >>,
                        JsNumber(ts + ExpirationDays * DayTicks) >> >>)

\* withdraw.js 164-172.
WithdrawMessage(brokerId, chainId, receiver, token, amount, withdrawNonce, ts) ==
    JsObject(<< << << "b", "r", "o", "k", "e", "r", "I", "d" >>, JsString(brokerId) >>,
                << << "c", "h", "a", "i", "n", "I", "d" >>, JsNumber(chainId) >>,
                << << "r", "e", "c", "e", "i", "v", "e", "r" >>, JsString(receiver) >>,
                << << "t", "o", "k", "e", "n" >>, JsString(token) >>,
                << << "a", "m", "o", "u", "n", "t" >>, JsString(NumberToString(amount)) >>,
                << << "w", "i", "t", "h", "d", "r", "a", "w", "N", "o", "n", "c", "e" >>,
                        JsString(toString(withdrawNonce)) >>,
                << << "t", "i", "m", "e", "s", "t", "a", "m", "p" >>,
                        JsString(NumberToString(ts)) >> >>)

\* A request body that carries the chain id as a string.
WithdrawRequestMessage_stringified(message) ==
    JsObject(<< << << "b", "r", "o", "k", "e", "r", "I", "d" >>, Get(message, << "b", "r", "o",
            "k", "e", "r", "I", "d" >>) >>,
                << << "c", "h", "a", "i", "n", "I", "d" >>, JsString(toString(Get(message,
                        << "c", "h", "a", "i", "n", "I", "d" >>))) >>,
                << << "r", "e", "c", "e", "i", "v", "e", "r" >>, Get(message, << "r", "e", "c",
                        "e", "i", "v", "e", "r" >>) >>,
                << << "t", "o", "k", "e", "n" >>, Get(message, << "t", "o", "k", "e", "n" >>) >>,
                << << "a", "m", "o", "u", "n", "t" >>, JsString(toString(Get(message, << "a",
                        "m", "o", "u", "n", "t" >>))) >>,
                << << "w", "i", "t", "h", "d", "r", "a", "w", "N", "o", "n", "c", "e" >>,
                   JsString(toString(Get(message, << "w", "i", "t", "h", "d", "r", "a", "w",
                           "N", "o", "n", "c", "e" >>))) >>,
                << << "t", "i", "m", "e", "s", "t", "a", "m", "p" >>,
                   JsString(toString(Get(message, << "t", "i", "m", "e", "s", "t", "a", "m",
                           "p" >>))) >> >>)

\* withdraw.js 225-233: the message of the request body, rebuilt field by
\* field from the signed message.
WithdrawRequestMessage(message) ==
    JsObject(<< << << "b", "r", "o", "k", "e", "r", "I", "d" >>, Get(message, << "b", "r", "o",
            "k", "e", "r", "I", "d" >>) >>,
                << << "c", "h", "a", "i", "n", "I", "d" >>, Get(message, << "c", "h", "a", "i",
                        "n", "I", "d" >>) >>,
                << << "r", "e", "c", "e", "i", "v", "e", "r" >>, Get(message, << "r", "e", "c",
                        "e", "i", "v", "e", "r" >>) >>,
                << << "t", "o", "k", "e", "n" >>, Get(message, << "t", "o", "k", "e", "n" >>) >>,
                << << "a", "m", "o", "u", "n", "t" >>, JsString(toString(Get(message, << "a",
                        "m", "o", "u", "n", "t" >>))) >>,
                << << "w", "i", "t", "h", "d", "r", "a", "w", "N", "o", "n", "c", "e" >>,
                   JsString(toString(Get(message, << "w", "i", "t", "h", "d", "r", "a", "w",
                           "N", "o", "n", "c", "e" >>))) >>,
                << << "t", "i", "m", "e", "s", "t", "a", "m", "p" >>,
                   JsString(toString(Get(message, << "t", "i", "m", "e", "s", "t", "a", "m",
                           "p" >>))) >> >>)

\* The body of the POST of registerAccount and addOrderlyKey.
WalletRequestBody(message, sig, userAddress) ==
    JsObject(<< << << "m", "e", "s", "s", "a", "g", "e" >>, message >>,
                << << "s", "i", "g", "n", "a", "t", "u", "r", "e" >>, JsString(sig) >>,
                << << "u", "s", "e", "r", "A", "d", "d", "r", "e", "s", "s" >>,
                        JsString(userAddress) >> >>)

\* withdraw.js 224-237.
WithdrawRequestBody(message, sig, userAddress) ==
    JsObject(<< << << "m", "e", "s", "s", "a", "g", "e" >>, WithdrawRequestMessage(message) >>,
                << << "s", "i", "g", "n", "a", "t", "u", "r", "e" >>, JsString(sig) >>,
                << << "u", "s", "e", "r", "A", "d", "d", "r", "e", "s", "s" >>,
                        JsString(userAddress) >>,
                << << "v", "e", "r", "i", "f", "y", "i", "n", "g", "C", "o", "n", "t", "r",
                        "a", "c", "t" >>, JsString(WITHDRAW_VERIFYING_CONTRACT) >> >>)

\* withdraw.js 76-81.
WithdrawalNonceOf(data) ==
    Or(Or(Or(Get(Get(data, << "d", "a", "t", "a" >>), << "w", "i", "t", "h", "d", "r", "a",
            "w", "_", "n", "o", "n", "c", "e" >>),
             Get(Get(data, << "d", "a", "t", "a" >>), << "n", "o", "n", "c", "e" >>)),
          Get(data, << "w", "i", "t", "h", "d", "r", "a", "w", "N", "o", "n", "c", "e" >>)),
       Get(data, << "n", "o", "n", "c", "e" >>))

\* A check that does not look at the status of the response.
AccountExists_anyStatus(r) == Get(r.payload, << "s", "u", "c", "c", "e", "s",
        "s" >>) = JsBoolean(TRUE)

\* check-account.js 49: response.ok && data.success === true
AccountExists(r) == r.ok /\ Get(r.payload, << "s", "u", "c", "c", "e", "s",
        "s" >>) = JsBoolean(TRUE)

\* register-account.js 65: if (accountExists) return
SkipsRegistration_never(accountExists) == FALSE

SkipsRegistration(accountExists) == accountExists

\* The line terminators of a regular expression, as far as ASCII has them.
LineTerminators == { "\n", "\r" }

\* /^prefix/.test(s): without the m flag ^ is the start of the string.
RegExpTest_multiline(prefix, s) ==
    \E i \in 1..Len(s) :
      /\ i = 1 \/ s[i - 1] \in LineTerminators
      /\ i + Len(prefix) - 1 <= Len(s)
      /\ SubSeq(s, i, i + Len(prefix) - 1) = prefix

RegExpTest(prefix, s) ==
    Len(prefix) <= Len(s) /\ SubSeq(s, 1, Len(prefix)) = prefix

\* s.replace(/^prefix.*$/m, replacement): the first line that starts with
\* prefix is replaced up to its line terminator; replacement has no $.
ReplaceLine(s, prefix, replacement) ==
    LET starts ==
            { i \in 1..Len(s) :
                /\ i = 1 \/ s[i - 1] \in LineTerminators
                /\ i + Len(prefix) - 1 <= Len(s)
                /\ SubSeq(s, i, i + Len(prefix) - 1) = prefix }
    IN  IF starts = {} THEN s
        ELSE LET first == CHOOSE i \in starts : \A j \in starts : i <= j
                 ends == { j \in (first + Len(prefix))..Len(s) :
                             s[j] \in LineTerminators }
                 last == IF ends = {} THEN Len(s)
                         ELSE (CHOOSE j \in ends : \A k \in ends : j <= k) - 1
             IN  SubSeq(s, 1, first - 1) \o replacement
                   \o SubSeq(s, last + 1, Len(s))

\* add-orderly-key.js 159-195: the content written to .env, from the content
\* read and the generated key pair.
UpdatedEnvContent(envContent, orderlyKey, orderlyPrivateKeyHex) ==
    LET hasOrderlyKey == RegExpTest(<< "O", "R", "D", "E", "R", "L", "Y", "_", "K", "E", "Y",
            "=" >>, envContent)
        hasOrderlyPrivateKey == RegExpTest(<< "O", "R", "D", "E", "R", "L", "Y", "_", "P", "R",
                "I", "V", "A", "T", "E", "_", "K", "E", "Y", "=" >>, envContent)
        withKey ==
            IF hasOrderlyKey
            THEN ReplaceLine(envContent, << "O", "R", "D", "E", "R", "L", "Y", "_", "K", "E",
                    "Y", "=" >>,
                             << "O", "R", "D", "E", "R", "L", "Y", "_", "K", "E", "Y",
                                     "=" >> \o orderlyKey)
            ELSE envContent
                   \o (IF envContent # << >> /\ envContent[Len(envContent)] # "\n"
                       THEN << "\n" >> ELSE << >>)
                   \o << "O", "R", "D", "E", "R", "L", "Y", "_", "K", "E", "Y",
                           "=" >> \o orderlyKey \o << "\n" >>
    IN  IF hasOrderlyPrivateKey
        THEN ReplaceLine(withKey, << "O", "R", "D", "E", "R", "L", "Y", "_", "P", "R", "I",
                "V", "A", "T", "E", "_", "K", "E", "Y", "=" >>,
                         << "O", "R", "D", "E", "R", "L", "Y", "_", "P", "R", "I", "V", "A",
                                 "T", "E", "_", "K", "E", "Y", "=" >> \o orderlyPrivateKeyHex)
        ELSE withKey \o << "O", "R", "D", "E", "R", "L", "Y", "_", "P", "R", "I", "V", "A",
                "T", "E", "_", "K", "E", "Y", "=" >> \o orderlyPrivateKeyHex
               \o << "\n" >>

(***************************************************************************)
(* The operation scripts: one invocation as a state machine.               *)
(***************************************************************************)
\* An invocation at its entry.
NewOp(inv) ==
    [name |-> inv.name, params |-> inv.params, pc |-> "start", step |-> "none",
     method |-> << >>, path |-> << >>, body |-> JsUndefined, timestamp |-> 0,
     accountExists |-> JsUndefined, nonce |-> JsUndefined,
     keyPair |-> NoValue, message |-> JsUndefined, domain |-> JsUndefined,
     typedData |-> NoValue, requests |-> << >>, outstanding |-> 0,
     answers |-> << >>, response |-> NoValue, envWritten |-> FALSE,
     envFile |-> IF inv.name = "addOrderlyKey" THEN inv.params.envFile ELSE NoFile,
     ret |-> NoValue]

Throw(o, err) == [o EXCEPT !.pc = "thrown", !.ret = err]

Return(o, val) == [o EXCEPT !.pc = "returned", !.ret = val]

\* new Error(`...: ${JSON.stringify(data)}`)
ServerError(what, payload) == [error |-> what, payload |-> payload]

Success(payload) == [success |-> TRUE, data |-> payload]

AccountAlreadyExists == [success |-> TRUE, message |-> "Account already exists"]

\* await createAuthenticatedRequest(method, path, body, ...): orderly-auth.js
\* 75-97, up to the await of the signature.
AwaitAuthenticatedRequest(o, step, method, path, body) ==
    [o EXCEPT !.pc = "sign", !.step = step, !.method = method, !.path = path,
              !.body = body, !.timestamp = now]

\* await fetch(...): the request leaves and the invocation waits for it.
Fetch(o, step, request) ==
    [o EXCEPT !.pc = "fetch", !.step = step, !.response = NoValue,
              !.requests = Append(@, request), !.outstanding = @ + 1]

\* fetch(url)
PlainGet(url) ==
    [url |-> url, authenticated |-> FALSE, signedPath |-> << >>,
     normalizedMessage |-> << >>, config |-> ("method" :> GET),
     body |-> JsUndefined]

\* fetch(url, { method: "POST", headers: {...}, body: JSON.stringify(body) })
PlainPost(url, body) ==
    [url |-> url, authenticated |-> FALSE, signedPath |-> << >>,
     normalizedMessage |-> << >>,
     config |-> ("method" :> POST)
                @@ ("headers" :> ("Content-Type" :> ApplicationJson))
                @@ ("body" :> JSONStringify(body)),
     body |-> body]

\* fetch(`${ORDERLY_API_URL}${path}`, requestConfig), requestConfig being what
\* createAuthenticatedRequest returned for the signature sig.
AuthenticatedFetch(o, sig) ==
    [url |-> FetchUrl(o.path), authenticated |-> TRUE, signedPath |-> o.path,
     normalizedMessage |->
         SignedMessage(o.timestamp, o.method, o.path, BodyString(o.body)),
     config |-> RequestConfig(o.method,
                              Headers(o.method, o.timestamp, env.accountId,
                                      env.orderlyKey, ToBase64Url(sig)),
                              BodyString(o.body)),
     body |-> o.body]

\* create-order.js 49-179.
createOrder(o) ==
    IF OrderValidationError(o.params) # "none"
    THEN Throw(o, Error(OrderValidationError(o.params)))
    ELSE AwaitAuthenticatedRequest(o, "main", POST, << "/", "v", "1", "/", "o", "r", "d", "e",
            "r" >>,
                                   OrderRequestBody(o.params))

\* cancel-order.js 37-66.
cancelOrder(o) ==
    IF ~Truthy(o.params.orderId) \/ o.params.symbol = << >>
    THEN Throw(o, Error("orderId and symbol are required"))
    ELSE AwaitAuthenticatedRequest(o, "main", DELETE, CancelOrderPath(o.params),
                                   JsNull)

\* get-orders 46-87.
getOrders(o) ==
    AwaitAuthenticatedRequest(o, "main", GET, OrdersPath(o.params), JsNull)

\* remove-orderly-key 36-58.
removeOrderlyKey(o) ==
    AwaitAuthenticatedRequest(
        o, "main", POST, << "/", "v", "1", "/", "c", "l", "i", "e", "n", "t", "/", "r", "e",
                "m", "o", "v", "e", "_", "o", "r", "d", "e", "r", "l", "y", "_", "k", "e", "y" >>,
        JsObject(<< << << "o", "r", "d", "e", "r", "l", "y", "_", "k", "e", "y" >>,
                JsString(o.params.orderlyKeyToRemove) >> >>))

\* withdraw.js 51-61.
getWithdrawalNonce(o) ==
    AwaitAuthenticatedRequest(o, "nonce", GET, << "/", "v", "1", "/", "w", "i", "t", "h", "d",
            "r", "a", "w", "_", "n", "o", "n", "c", "e" >>, JsNull)

\* An invocation that does not look at the credentials.
withdrawFunds_unchecked(o) == getWithdrawalNonce(o)

\* withdraw.js 99-147.
withdrawFunds(o) ==
    IF env.accountId = << >>
    THEN Throw(o, Error("ACCOUNT_ID is required"))
    ELSE IF env.orderlyKey = << >>
    THEN Throw(o, Error("ORDERLY_KEY is required"))
    ELSE IF env.orderlyPrivateKey = << >>
    THEN Throw(o, Error("ORDERLY_PRIVATE_KEY is required"))
    ELSE getWithdrawalNonce(o)

\* check-account.js 32-46.
checkAccountExists(o) ==
    Fetch(o, "check", PlainGet(CheckAccountUrl(WalletAddress, o.params.brokerId)))

\* register-account.js 29-31.
getRegistrationNonce(o) ==
    Fetch(o, "nonce", PlainGet(ORDERLY_API_URL \o << "/", "v", "1", "/", "r", "e", "g", "i",
            "s", "t", "r", "a", "t", "i", "o", "n", "_", "n", "o", "n", "c", "e" >>))

\* An invocation that fetches the nonce while the account check is under way.
registerAccount_prefetch(o) == getRegistrationNonce(checkAccountExists(o))

\* register-account.js 52-64.
registerAccount(o) == checkAccountExists(o)

\* add-orderly-key.js 67-76.
addOrderlyKey(o) == [o EXCEPT !.pc = "generateKey"]

\* await wallet.signTypedData(domain, types, message)
AwaitSignTypedData(o, message, domain) ==
    [o EXCEPT !.pc = "signTypedData", !.timestamp = now, !.message = message,
              !.domain = domain]

\* register-account.js 64-113, from the account check's outcome on.
AfterAccountCheck(o, exists) ==
    IF SkipsRegistration(exists)
    THEN Return([o EXCEPT !.accountExists = JsBoolean(exists)], AccountAlreadyExists)
    ELSE getRegistrationNonce([o EXCEPT !.accountExists = JsBoolean(exists)])

\* if (!response.ok) throw; if (!data.success) throw; return { success: true }
CheckedResponse(o, r) ==
    IF ~r.ok THEN Throw(o, ServerError("status", r.payload))
    ELSE IF ~Truthy(Get(r.payload, << "s", "u", "c", "c", "e", "s", "s" >>))
    THEN Throw(o, ServerError("success", r.payload))
    ELSE Return(o, Success(r.payload))

\* if (!response.ok) throw; return { success: true }
StatusCheckedResponse(o, r) ==
    IF ~r.ok THEN Throw(o, ServerError("status", r.payload))
    ELSE Return(o, Success(r.payload))

\* register-account.js 32-39, 74-113: the nonce response.
RegistrationNonceResponse(o, r) ==
    IF ~r.ok THEN Throw(o, ServerError("status", r.payload))
    ELSE IF Get(r.payload, << "d", "a", "t", "a" >>).t # "object" THEN Throw(o, Error("TypeError"))
    ELSE LET registrationNonce ==
                 Get(Get(r.payload, << "d", "a", "t", "a" >>), << "r", "e", "g", "i", "s", "t",
                         "r", "a", "t", "i", "o", "n", "_", "n", "o", "n", "c", "e" >>)
         IN  AwaitSignTypedData(
                 [o EXCEPT !.nonce = registrationNonce],
                 RegistrationMessage(o.params.brokerId, o.params.chainId, now,
                                     registrationNonce),
                 Domain(o.params.chainId, VERIFYING_CONTRACT))

\* withdraw.js 62-81, 143-208: the nonce response.
WithdrawalNonceResponse(o, r) ==
    IF ~r.ok THEN Throw(o, ServerError("status", r.payload))
    ELSE LET withdrawNonce == WithdrawalNonceOf(r.payload)
         IN  IF withdrawNonce.t = "undefined"
             THEN Throw([o EXCEPT !.nonce = withdrawNonce], Error("TypeError"))
             ELSE AwaitSignTypedData(
                      [o EXCEPT !.nonce = withdrawNonce],
                      WithdrawMessage(o.params.brokerId, o.params.targetChainId,
                                      WalletAddress, o.params.token,
                                      ParseUnits(o.params.amount,
                                                 TOKEN_DECIMALS(o.params.token)),
                                      withdrawNonce, now),
                      Domain(o.params.targetChainId,
                             WITHDRAW_VERIFYING_CONTRACT))

\* fs.writeFileSync(envPath, envContent) with the content updated from the one
\* read, "" when there is no file.
WriteEnvFile(o) ==
    [o EXCEPT !.envWritten = TRUE,
              !.envFile = File(UpdatedEnvContent(o.envFile.content,
                                                 o.keyPair.orderlyKey,
                                                 o.keyPair.privateKeyHex))]

\* A response handler that saves the keys whatever the status.
AddOrderlyKeyResponse_savesFirst(o, r) ==
    IF ~r.ok THEN Throw(WriteEnvFile(o), ServerError("status", r.payload))
    ELSE Return(WriteEnvFile(o), Success(r.payload))

\* add-orderly-key.js 150-205.
AddOrderlyKeyResponse(o, r) ==
    IF ~r.ok THEN Throw(o, ServerError("status", r.payload))
    ELSE Return(WriteEnvFile(o), Success(r.payload))

\* What the invocation does with the response it awaited.
OnResponse(o, r) ==
    CASE o.name \in { "createOrder", "cancelOrder", "getOrders" } ->
           CheckedResponse(o, r)
      [] o.name = "removeOrderlyKey" -> StatusCheckedResponse(o, r)
      [] o.name = "withdrawFunds" /\ o.step = "nonce" ->
           WithdrawalNonceResponse(o, r)
      [] o.name = "withdrawFunds" /\ o.step = "main" -> CheckedResponse(o, r)
      [] o.name = "registerAccount" /\ o.step = "check" ->
           AfterAccountCheck(o, AccountExists(r))
      [] o.name = "registerAccount" /\ o.step = "nonce" ->
           RegistrationNonceResponse(o, r)
      [] o.name = "registerAccount" /\ o.step = "main" ->
           StatusCheckedResponse(o, r)
      [] o.name = "addOrderlyKey" -> AddOrderlyKeyResponse(o, r)

\* What the invocation does when fetch() or response.json() rejects:
\* checkAccountExists catches and returns false, the others rethrow.
OnFetchRejected(o) ==
    IF o.name = "registerAccount" /\ o.step = "check"
    THEN AfterAccountCheck(o, FALSE)
    ELSE Throw(o, Error("fetch rejected"))

\* The request that follows the typed-data signature sig.
OnTypedDataSigned(o, sig) ==
    CASE o.name = "registerAccount" ->
           Fetch(o, "main",
                 PlainPost(ORDERLY_API_URL \o << "/", "v", "1", "/", "r", "e", "g", "i", "s",
                         "t", "e", "r", "_", "a", "c", "c", "o", "u", "n", "t" >>,
                           WalletRequestBody(o.message, sig, WalletAddress)))
      [] o.name = "addOrderlyKey" ->
           Fetch(o, "main",
                 PlainPost(ORDERLY_API_URL \o << "/", "v", "1", "/", "o", "r", "d", "e", "r",
                         "l", "y", "_", "k", "e", "y" >>,
                           WalletRequestBody(o.message, sig, WalletAddress)))
      [] o.name = "withdrawFunds" ->
           AwaitAuthenticatedRequest(
               o, "main", POST, << "/", "v", "1", "/", "w", "i", "t", "h", "d", "r", "a", "w",
                       "_", "r", "e", "q", "u", "e", "s", "t" >>,
               WithdrawRequestBody(o.message, sig, WalletAddress))

OpInit ==
    /\ now = ClockStart
    /\ env \in OpEnvs
    /\ pc = "idle"
    /\ fn = "none"
    /\ args = NoValue
    /\ timestamp = 0
    /\ bodyString = << >>
    /\ normalizedMessage = << >>
    /\ messageBytes = << >>
    /\ signCalls = 0
    /\ signature = << >>
    /\ ret = NoValue
    /\ prev = NoCall
    /\ signed = {}
    /\ deposit = NoDeposit
    /\ \E inv \in Invocations :
         \* The main functions of the other scripts exit when a credential
         \* is missing; withdrawFunds checks the credentials itself.
         /\ inv.name # "withdrawFunds" => env \in CompleteEnvs
         /\ op = NewOp(inv)

OpFrame ==
    UNCHANGED << env, pc, fn, args, timestamp, bodyString, normalizedMessage,
                 messageBytes, signCalls, signature, ret, prev, signed, deposit >>

\* The invocation runs to its first await, or to a throw before it.
OpStart ==
    /\ op.pc = "start"
    /\ op' = CASE op.name = "createOrder" -> createOrder(op)
               [] op.name = "cancelOrder" -> cancelOrder(op)
               [] op.name = "getOrders" -> getOrders(op)
               [] op.name = "removeOrderlyKey" -> removeOrderlyKey(op)
               [] op.name = "withdrawFunds" -> withdrawFunds(op)
               [] op.name = "registerAccount" -> registerAccount(op)
               [] op.name = "addOrderlyKey" -> addOrderlyKey(op)
    /\ UNCHANGED now
    /\ OpFrame

\* sign() rejects the private key: createAuthenticatedRequest rejects and the
\* invocation rethrows.
OpSignRejects ==
    /\ op.pc = "sign"
    /\ Len(env.orderlyPrivateKey) # KeyLen
    /\ op' = Throw(op, SignKeyError)
    /\ UNCHANGED now
    /\ OpFrame

\* createAuthenticatedRequest returns and the request is sent.
OpSignResolves(sig) ==
    /\ op.pc = "sign"
    /\ Len(env.orderlyPrivateKey) = KeyLen
    /\ op' = Fetch(op, op.step, AuthenticatedFetch(op, sig))
    /\ UNCHANGED now
    /\ OpFrame

\* The server answers the outstanding request.
OpResponds(r) ==
    /\ op.pc = "fetch"
    /\ op' = OnResponse(
                 [op EXCEPT !.outstanding = @ - 1, !.response = r,
                            !.answers = Append(@, [rejected |-> FALSE, ok |-> r.ok,
                                                   payload |-> r.payload])],
                 r)
    /\ UNCHANGED now
    /\ OpFrame

\* The outstanding request fails: no response, or one that is not JSON.
OpFetchRejects ==
    /\ op.pc = "fetch"
    /\ op' = OnFetchRejected(
                 [op EXCEPT !.outstanding = @ - 1,
                            !.answers = Append(@, [rejected |-> TRUE, ok |-> FALSE,
                                                   payload |-> JsUndefined])])
    /\ UNCHANGED now
    /\ OpFrame

\* A step that puts the private key where the public key belongs.
OpKeyGenerated_privateKey(keyPair) ==
    /\ op.pc = "generateKey"
    /\ op' = AwaitSignTypedData(
                 [op EXCEPT !.keyPair = keyPair],
                 AddOrderlyKeyMessage(op.params.brokerId, op.params.chainId,
                                      keyPair.privateKeyHex, now),
                 Domain(op.params.chainId, VERIFYING_CONTRACT))
    /\ UNCHANGED now
    /\ OpFrame

\* add-orderly-key.js 76-128: the key pair is there; the message is built and
\* handed to the wallet.
OpKeyGenerated(keyPair) ==
    /\ op.pc = "generateKey"
    /\ op' = AwaitSignTypedData(
                 [op EXCEPT !.keyPair = keyPair],
                 AddOrderlyKeyMessage(op.params.brokerId, op.params.chainId,
                                      keyPair.orderlyKey, now),
                 Domain(op.params.chainId, VERIFYING_CONTRACT))
    /\ UNCHANGED now
    /\ OpFrame

\* The wallet returns the typed-data signature of domain and message.
OpTypedDataSigned(sig) ==
    /\ op.pc = "signTypedData"
    /\ op' = OnTypedDataSigned(
                 [op EXCEPT !.typedData = [signer |-> WalletAddress,
                                           domain |-> op.domain,
                                           message |-> op.message,
                                           signature |-> sig]],
                 sig)
    /\ UNCHANGED now
    /\ OpFrame

\* generateOrderlyKey or signTypedData rejects.
OpLocalRejects ==
    /\ op.pc \in { "generateKey", "signTypedData" }
    /\ op' = Throw(op, Error("local call rejected"))
    /\ UNCHANGED now
    /\ OpFrame

OpNext ==
    \/ OpStart
    \/ Tick
    \/ OpSignRejects
    \/ \E sig \in SigSample : OpSignResolves(sig)
    \/ \E r \in Responses : OpResponds(r)
    \/ OpFetchRejects
    \/ \E keyPair \in GeneratedKeys : OpKeyGenerated(keyPair)
    \/ \E sig \in WalletSignatures : OpTypedDataSigned(sig)
    \/ OpLocalRejects

SpecOps == OpInit /\ [][OpNext]_vars

(***************************************************************************)
(* Properties of the operation scripts.                                    *)
(***************************************************************************)
\* The response to the request that carries out the operation says it failed.
FailedResponse(r) ==
    \/ ~r.ok
    \/ Get(r.payload, << "s", "u", "c", "c", "e", "s", "s" >>) = JsBoolean(FALSE)

\* C12: an operation whose request is answered with a non-success status or
\* with a payload that has success:false throws an error that carries the
\* payload, and returns no success result.
C12_FailedResponseThrows ==
    op.pc # "none" /\ op.step = "main" /\ op.response # NoValue
    /\ FailedResponse(op.response) =>
        /\ op.pc = "thrown"
        /\ op.ret = ServerError(op.ret.error, op.response.payload)

\* The part of a request's URL after the API base URL.
PathOfUrl(url) == SubSeq(url, Len(ORDERLY_API_URL) + 1, Len(url))

SentBody(config) == IF "body" \in DOMAIN config THEN config["body"] ELSE << >>

\* C13: in every authenticated request, the path handed to
\* createAuthenticatedRequest is the string appended to the API base URL, and
\* the message that was signed is the timestamp, method, that path with its
\* query string, and body of the request as sent.
C13_SignedPathIsSentPath ==
    op.pc # "none" =>
      \A k \in 1..Len(op.requests) :
        LET q == op.requests[k]
        IN  q.authenticated =>
              /\ q.url = ORDERLY_API_URL \o q.signedPath
              /\ q.normalizedMessage =
                   q.config["headers"]["orderly-timestamp"] \o q.config["method"]
                     \o PathOfUrl(q.url) \o SentBody(q.config)
              /\ op.name = "cancelOrder" =>
                   q.signedPath =
                     << "/", "v", "1", "/", "o", "r", "d", "e", "r", "?", "o", "r", "d", "e",
                             "r", "_", "i", "d", "=" >> \o toString(op.params.orderId)
                       \o << "&", "s", "y", "m", "b", "o", "l",
                               "=" >> \o FormEncode(op.params.symbol)

C13_Witness ==
    /\ op.name = "cancelOrder"
    /\ op.pc = "returned"
    /\ Len(op.requests) = 1
    /\ op.requests[1].url
         = ORDERLY_API_URL \o << "/", "v", "1", "/", "o", "r", "d", "e", "r", "?", "o", "r",
                 "d", "e", "r", "_", "i", "d", "=", "1", "2", "&", "s", "y", "m", "b", "o",
                         "l", "=", "A", "%", "2", "6", "b", "+", "c" >>

\* C14: when checkAccountExists returned true, registerAccount has returned
\* its success result with the account check as its only request: no nonce
\* was fetched, nothing was signed and nothing was posted.
C14_SkipsWhenAccountExists ==
    op.pc # "none" /\ op.name = "registerAccount"
    /\ op.accountExists = JsBoolean(TRUE) =>
        /\ op.pc = "returned"
        /\ op.ret = AccountAlreadyExists
        /\ Len(op.requests) = 1
        /\ op.requests[1].url = CheckAccountUrl(WalletAddress, op.params.brokerId)
        /\ op.nonce = JsUndefined
        /\ op.typedData = NoValue

C14_Witness ==
    /\ op.name = "registerAccount"
    /\ op.accountExists = JsBoolean(TRUE)
    /\ op.pc = "returned"
    /\ now > ClockStart

WalletOps == { "registerAccount", "addOrderlyKey", "withdrawFunds" }

\* C15: in registerAccount, addOrderlyKey and withdrawFunds the message of the
\* POST body equals the message the wallet signed, field for field; the domain
\* signed with has the chainId of the message; userAddress in the body is the
\* signing wallet's address.
C15_BodyMessageIsSigned ==
    op.pc # "none" /\ op.name \in WalletOps =>
      /\ op.typedData # NoValue =>
           /\ Get(op.typedData.domain, << "c", "h", "a", "i", "n", "I", "d" >>)
                = Get(op.typedData.message, << "c", "h", "a", "i", "n", "I", "d" >>)
           /\ Get(op.typedData.message, << "c", "h", "a", "i", "n", "I", "d" >>).t = "number"
           /\ op.typedData.signer = WalletAddress
      /\ \A k \in 1..Len(op.requests) :
           LET q == op.requests[k]
           IN  q.config["method"] = POST =>
                 /\ op.typedData # NoValue
                 /\ Get(q.body, << "m", "e", "s", "s", "a", "g", "e" >>) = op.typedData.message
                 /\ Get(q.body, << "s", "i", "g", "n", "a", "t", "u", "r",
                         "e" >>) = JsString(op.typedData.signature)
                 /\ Get(q.body, << "u", "s", "e", "r", "A", "d", "d", "r", "e", "s",
                         "s" >>) = JsString(op.typedData.signer)
                 /\ q.config["body"] = JSONStringify(q.body)

C15_Witness ==
    /\ op.name = "withdrawFunds"
    /\ op.pc = "returned"
    /\ Len(op.requests) = 2
    /\ op.requests[2].config["method"] = POST
    /\ Get(op.requests[2].body, << "m", "e", "s", "s", "a", "g", "e" >>) = op.typedData.message

Posts == { k \in 1..Len(op.requests) : op.requests[k].config["method"] = POST }

\* The k-th request was answered, with a response whose status is successful.
AnsweredOk(k) ==
    /\ Len(op.answers) >= k
    /\ ~op.answers[k].rejected
    /\ op.answers[k].ok

\* The k-th request failed: it was rejected or answered with a failure status.
AnsweredFailure(k) ==
    /\ Len(op.answers) >= k
    /\ op.answers[k].rejected \/ ~op.answers[k].ok

\* C22: registerAccount requests the account check, then the registration
\* nonce, then signs, then POSTs /v1/register_account; the POST follows a
\* successful nonce response, the signed and the posted message carry the
\* nonce of that response, and a failed nonce fetch throws with no POST sent.
C22_RegistrationOrder ==
    op.pc # "none" /\ op.name = "registerAccount" =>
      /\ Len(op.requests) >= 1 =>
           op.requests[1].url = CheckAccountUrl(WalletAddress, op.params.brokerId)
      /\ Len(op.requests) >= 2 =>
           /\ Len(op.answers) >= 1
           /\ op.requests[2].url = ORDERLY_API_URL \o << "/", "v", "1", "/", "r", "e", "g",
                   "i", "s", "t", "r", "a", "t", "i", "o", "n", "_", "n", "o", "n", "c", "e" >>
      /\ op.typedData # NoValue => AnsweredOk(2)
      /\ \A k \in Posts :
           /\ k = 3
           /\ AnsweredOk(2)
           /\ op.typedData # NoValue
           /\ op.requests[k].url = ORDERLY_API_URL \o << "/", "v", "1", "/", "r", "e", "g",
                   "i", "s", "t", "e", "r", "_", "a", "c", "c", "o", "u", "n", "t" >>
           /\ Get(op.typedData.message, << "r", "e", "g", "i", "s", "t", "r", "a", "t", "i",
                   "o", "n", "N", "o", "n", "c", "e" >>)
                = Get(Get(op.answers[2].payload, << "d", "a", "t", "a" >>), << "r", "e", "g",
                        "i", "s", "t", "r", "a", "t", "i", "o", "n", "_", "n", "o", "n", "c",
                                "e" >>)
           /\ Get(Get(op.requests[k].body, << "m", "e", "s", "s", "a", "g", "e" >>), << "r",
                   "e", "g", "i", "s", "t", "r", "a", "t", "i", "o", "n", "N", "o", "n", "c",
                           "e" >>)
                = Get(Get(op.answers[2].payload, << "d", "a", "t", "a" >>), << "r", "e", "g",
                        "i", "s", "t", "r", "a", "t", "i", "o", "n", "_", "n", "o", "n", "c",
                                "e" >>)
      /\ AnsweredFailure(2) =>
           /\ op.pc = "thrown"
           /\ Posts = {}
           /\ op.typedData = NoValue

C22_Witness ==
    /\ op.name = "registerAccount"
    /\ op.pc = "returned"
    /\ Posts = { 3 }
    /\ Get(Get(op.requests[3].body, << "m", "e", "s", "s", "a", "g", "e" >>), << "r", "e", "g",
            "i", "s", "t", "r", "a", "t", "i", "o", "n", "N", "o", "n", "c", "e" >>)
         = JsNumber(7)

\* C23: withdrawFunds with a missing credential throws before any request;
\* otherwise the POST /v1/withdraw_request follows a successful response to
\* the authenticated GET /v1/withdraw_nonce and the typed-data signature, its
\* message carries the nonce read from that response, and a failed nonce
\* request throws with no POST sent.
C23_WithdrawOrder ==
    op.pc # "none" /\ op.name = "withdrawFunds" =>
      /\ env \notin CompleteEnvs =>
           /\ op.pc \in { "start", "thrown" }
           /\ op.requests = << >>
           /\ op.typedData = NoValue
      /\ Len(op.requests) >= 1 =>
           /\ op.requests[1].authenticated
           /\ op.requests[1].config["method"] = GET
           /\ op.requests[1].url = ORDERLY_API_URL \o << "/", "v", "1", "/", "w", "i", "t",
                   "h", "d", "r", "a", "w", "_", "n", "o", "n", "c", "e" >>
      /\ op.typedData # NoValue => AnsweredOk(1)
      /\ \A k \in Posts :
           /\ k = 2
           /\ AnsweredOk(1)
           /\ op.typedData # NoValue
           /\ op.requests[k].authenticated
           /\ op.requests[k].url = ORDERLY_API_URL \o << "/", "v", "1", "/", "w", "i", "t",
                   "h", "d", "r", "a", "w", "_", "r", "e", "q", "u", "e", "s", "t" >>
           /\ Get(Get(op.requests[k].body, << "m", "e", "s", "s", "a", "g", "e" >>), << "w",
                   "i", "t", "h", "d", "r", "a", "w", "N", "o", "n", "c", "e" >>)
                = JsString(toString(WithdrawalNonceOf(op.answers[1].payload)))
      /\ AnsweredFailure(1) =>
           /\ op.pc = "thrown"
           /\ Posts = {}
           /\ op.typedData = NoValue

C23_Witness ==
    /\ op.name = "withdrawFunds"
    /\ op.pc = "returned"
    /\ Posts = { 2 }
    /\ Get(Get(op.requests[2].body, << "m", "e", "s", "s", "a", "g", "e" >>), << "w", "i", "t",
            "h", "d", "r", "a", "w", "N", "o", "n", "c", "e" >>)
         = JsString(<< "5" >>)

\* C24: createOrder starts to sign only for parameters whose symbol,
\* orderType and side are present, whose upper-cased orderType is one of the
\* seven order types and upper-cased side BUY or SELL, that give orderPrice
\* for LIMIT, IOC, FOK and POST_ONLY, and that give orderQuantity or
\* orderAmount; for any other parameters it throws, signs nothing and sends
\* no request.
C24_ValidatedBeforeSigning ==
    LET p == op.params
        valid ==
            /\ p.symbol # << >> /\ p.orderType # << >> /\ p.side # << >>
            /\ toUpperCase(p.orderType)
                 \in { << "L", "I", "M", "I", "T" >>, << "M", "A", "R", "K", "E", "T" >>,
                         << "I", "O", "C" >>, << "F", "O", "K" >>, << "P", "O", "S", "T", "_",
                                 "O", "N", "L", "Y" >>,
                       << "A", "S", "K" >>, << "B", "I", "D" >> }
            /\ toUpperCase(p.side) \in { << "B", "U", "Y" >>, << "S", "E", "L", "L" >> }
            /\ toUpperCase(p.orderType)
                  \in { << "L", "I", "M", "I", "T" >>, << "I", "O", "C" >>, << "F", "O",
                          "K" >>, << "P", "O", "S", "T", "_", "O", "N", "L", "Y" >> }
                 => p.orderPrice # JsUndefined
            /\ p.orderQuantity # JsUndefined \/ p.orderAmount # JsUndefined
    IN  op.pc # "none" /\ op.name = "createOrder" =>
          /\ op.pc \notin { "start", "thrown" } \/ op.requests # << >> => valid
          /\ ~valid =>
               /\ op.pc \in { "start", "thrown" }
               /\ op.requests = << >>
               /\ op.method = << >>
               /\ op.pc = "thrown" => op.ret \in { Error(OrderValidationError(p)) }

C24_Witness ==
    /\ op.name = "createOrder"
    /\ op.pc = "thrown"
    /\ op.ret = Error("orderPrice is required")
    /\ op.requests = << >>

\* C25: an order request body of type MARKET, BID or ASK carries order_amount
\* and no order_quantity for side BUY, and order_quantity and no order_amount
\* for side SELL; every order request body has order_type and side in upper
\* case and carries reduce_only, false when the caller gave none.
C25_OrderBodyShape ==
    op.pc # "none" /\ op.name = "createOrder" =>
      \A k \in 1..Len(op.requests) :
        LET b == op.requests[k].body
            Has(key) == Get(b, key) # JsUndefined
        IN  /\ op.requests[k].config["body"] = JSONStringify(b)
            /\ Get(b, << "o", "r", "d", "e", "r", "_", "t", "y", "p",
                    "e" >>) = JsString(toUpperCase(op.params.orderType))
            /\ Get(b, << "s", "i", "d", "e" >>) = JsString(toUpperCase(op.params.side))
            /\ \A i \in 1..Len(Get(b, << "o", "r", "d", "e", "r", "_", "t", "y", "p", "e" >>).v) :
                 CharCode(Get(b, << "o", "r", "d", "e", "r", "_", "t", "y", "p",
                         "e" >>).v[i]) \notin 97..122
            /\ \A i \in 1..Len(Get(b, << "s", "i", "d", "e" >>).v) :
                 CharCode(Get(b, << "s", "i", "d", "e" >>).v[i]) \notin 97..122
            /\ Has(<< "r", "e", "d", "u", "c", "e", "_", "o", "n", "l", "y" >>)
            /\ op.params.reduceOnly = JsUndefined
                 => Get(b, << "r", "e", "d", "u", "c", "e", "_", "o", "n", "l",
                         "y" >>) = JsBoolean(FALSE)
            /\ Get(b, << "o", "r", "d", "e", "r", "_", "t", "y", "p", "e" >>).v \in { << "M",
                    "A", "R", "K", "E", "T" >>, << "B", "I", "D" >>, << "A", "S", "K" >> } =>
                 /\ Get(b, << "s", "i", "d", "e" >>).v = << "B", "U", "Y" >>
                      => Has(<< "o", "r", "d", "e", "r", "_", "a", "m", "o", "u", "n",
                              "t" >>) /\ ~Has(<< "o", "r", "d", "e", "r", "_", "q", "u", "a",
                                      "n", "t", "i", "t", "y" >>)
                 /\ Get(b, << "s", "i", "d", "e" >>).v = << "S", "E", "L", "L" >>
                      => Has(<< "o", "r", "d", "e", "r", "_", "q", "u", "a", "n", "t", "i",
                              "t", "y" >>) /\ ~Has(<< "o", "r", "d", "e", "r", "_", "a", "m",
                                      "o", "u", "n", "t" >>)

C25_Witness ==
    /\ op.name = "createOrder"
    /\ Len(op.requests) = 1
    /\ op.params.reduceOnly = JsUndefined
    /\ Get(op.requests[1].body, << "o", "r", "d", "e", "r", "_", "t", "y", "p",
            "e" >>) = JsString(<< "M", "A", "R", "K", "E", "T" >>)
    /\ Get(op.requests[1].body, << "s", "i", "d", "e" >>) = JsString(<< "B", "U", "Y" >>)
    /\ Get(op.requests[1].body, << "o", "r", "d", "e", "r", "_", "a", "m", "o", "u", "n",
            "t" >>) = JsNumber(5)
    /\ Get(op.requests[1].body, << "r", "e", "d", "u", "c", "e", "_", "o", "n", "l",
            "y" >>) = JsBoolean(FALSE)

\* The answer to the account check says that the account exists.
CheckSaysExists ==
    /\ ~op.answers[1].rejected
    /\ op.answers[1].ok
    /\ Get(op.answers[1].payload, << "s", "u", "c", "c", "e", "s", "s" >>) = JsBoolean(TRUE)

\* C26: checkAccountExists does not throw; it returns true exactly for a
\* response with a successful status and a payload whose success is true,
\* and false otherwise, a rejected or unparsable response included; after
\* false registerAccount goes on to fetch the registration nonce.
C26_CheckNeverThrows ==
    op.pc # "none" /\ op.name = "registerAccount" /\ Len(op.answers) >= 1 =>
      /\ op.accountExists = JsBoolean(CheckSaysExists)
      /\ ~CheckSaysExists =>
           /\ Len(op.requests) >= 2
           /\ op.requests[2].url = ORDERLY_API_URL \o << "/", "v", "1", "/", "r", "e", "g",
                   "i", "s", "t", "r", "a", "t", "i", "o", "n", "_", "n", "o", "n", "c", "e" >>
      /\ op.pc = "thrown" => Len(op.answers) >= 2

C26_Witness ==
    /\ op.name = "registerAccount"
    /\ op.answers # << >> /\ op.answers[1].rejected
    /\ op.accountExists = JsBoolean(FALSE)
    /\ op.pc = "returned"
    /\ Posts = { 3 }

\* C27: addOrderlyKey writes .env only after a response with a successful
\* status to its POST /v1/orderly_key; when it throws, whether signing or
\* the request failed or the status was no success, nothing was written and
\* the file is as it was.
C27_EnvWrittenAfterAccept ==
    op.pc # "none" /\ op.name = "addOrderlyKey" =>
      /\ op.envWritten \/ op.envFile # op.params.envFile =>
           /\ Posts = { 1 }
           /\ op.requests[1].url = ORDERLY_API_URL \o << "/", "v", "1", "/", "o", "r", "d",
                   "e", "r", "l", "y", "_", "k", "e", "y" >>
           /\ AnsweredOk(1)
           /\ op.pc = "returned"
      /\ op.pc = "thrown" =>
           /\ ~op.envWritten
           /\ op.envFile = op.params.envFile
           /\ \/ op.ret = Error("local call rejected")
              \/ op.ret = Error("fetch rejected")
              \/ /\ AnsweredFailure(1)
                 /\ op.ret = ServerError("status", op.answers[1].payload)
      /\ op.pc = "returned" => op.envWritten

C27_Witness ==
    /\ op.name = "addOrderlyKey"
    /\ op.pc = "thrown"
    /\ AnsweredFailure(1)
    /\ ~op.answers[1].rejected
    /\ op.params.envFile.exists
    /\ op.envFile = op.params.envFile

\* The lines of a text, split at the line feeds.
RECURSIVE Lines(_)
Lines(s) ==
    IF \A i \in 1..Len(s) : s[i] # "\n" THEN << s >>
    ELSE LET i == CHOOSE i \in 1..Len(s) : s[i] = "\n" /\ \A j \in 1..(i - 1) : s[j] # "\n"
         IN  << SubSeq(s, 1, i - 1) >> \o Lines(SubSeq(s, i + 1, Len(s)))

\* A line that sets ORDERLY_KEY or ORDERLY_PRIVATE_KEY.
KeyLine(line) ==
    \/ RegExpTest(<< "O", "R", "D", "E", "R", "L", "Y", "_", "K", "E", "Y", "=" >>, line)
    \/ RegExpTest(<< "O", "R", "D", "E", "R", "L", "Y", "_", "P", "R", "I", "V", "A", "T", "E",
            "_", "K", "E", "Y", "=" >>, line)

OtherLine(line) == ~KeyLine(line) /\ line # << >>

\* C28: after addOrderlyKey succeeded the file has exactly one ORDERLY_KEY=
\* line and one ORDERLY_PRIVATE_KEY= line, which carry the generated values,
\* wherever the existing content had such lines; a line that existed is
\* updated where it was, and the other lines are unchanged.
C28_OneLineOfEach ==
    op.pc = "returned" /\ op.name = "addOrderlyKey" =>
      LET old == Lines(op.params.envFile.content)
          new == Lines(op.envFile.content)
      IN  /\ SelectSeq(new, KeyLine) \in
                { << << "O", "R", "D", "E", "R", "L", "Y", "_", "K", "E", "Y",
                        "=" >> \o op.keyPair.orderlyKey,
                     << "O", "R", "D", "E", "R", "L", "Y", "_", "P", "R", "I", "V", "A", "T",
                             "E", "_", "K", "E", "Y", "=" >> \o op.keyPair.privateKeyHex >>,
                  << << "O", "R", "D", "E", "R", "L", "Y", "_", "P", "R", "I", "V", "A", "T",
                          "E", "_", "K", "E", "Y", "=" >> \o op.keyPair.privateKeyHex,
                     << "O", "R", "D", "E", "R", "L", "Y", "_", "K", "E", "Y",
                             "=" >> \o op.keyPair.orderlyKey >> }
          /\ SelectSeq(new, OtherLine) = SelectSeq(old, OtherLine)
          /\ \A k \in 1..Len(old) :
               KeyLine(old[k]) => k <= Len(new) /\ KeyLine(new[k])

\* part occurs in text.
Contains(text, part) ==
    \E i \in 1..(Len(text) - Len(part) + 1) :
      SubSeq(text, i, i + Len(part) - 1) = part

\* The hexadecimal digits of a byte array, as ORDERLY_PRIVATE_KEY has them.
HexDigitsOf(bytes) ==
    LET digit == << "0", "1", "2", "3", "4", "5", "6", "7",
                    "8", "9", "a", "b", "c", "d", "e", "f" >>
    IN  [i \in 1..(2 * Len(bytes)) |->
           IF i % 2 = 1 THEN digit[(bytes[(i + 1) \div 2] \div 16) + 1]
           ELSE digit[(bytes[i \div 2] % 16) + 1]]

\* The names of the properties of an object, in their order.
Keys(obj) == [i \in 1..Len(obj.v) |-> obj.v[i][1]]

\* The private keys an invocation holds: the ed25519 key of the environment
\* and the one addOrderlyKey generated.
PrivateKeyTexts ==
    (IF env.orderlyPrivateKey # << >>
     THEN { HexDigitsOf(env.orderlyPrivateKey) } ELSE {})
      \cup (IF op.keyPair # NoValue
            THEN { op.keyPair.privateKeyHex,
                   SubSeq(op.keyPair.privateKeyHex, 3, Len(op.keyPair.privateKeyHex)) }
            ELSE {})

FirstPresent(a, b) == IF a # JsUndefined THEN a ELSE b

\* C30: after a successful response getWithdrawalNonce has returned the
\* first field present among data.withdraw_nonce, data.nonce, withdrawNonce
\* and nonce of the payload, whatever its value, 0 included, and withdrawFunds
\* goes on with it when there is one.
C30_FirstPresentNonce ==
    op.pc # "none" /\ op.name = "withdrawFunds" /\ AnsweredOk(1) =>
      LET data == op.answers[1].payload
          present ==
              FirstPresent(
                  Get(Get(data, << "d", "a", "t", "a" >>), << "w", "i", "t", "h", "d", "r",
                          "a", "w", "_", "n", "o", "n", "c", "e" >>),
                  FirstPresent(Get(Get(data, << "d", "a", "t", "a" >>), << "n", "o", "n", "c",
                          "e" >>),
                               FirstPresent(Get(data, << "w", "i", "t", "h", "d", "r", "a",
                                       "w", "N", "o", "n", "c", "e" >>),
                                            Get(data, << "n", "o", "n", "c", "e" >>))))
      IN  /\ op.nonce = present
          /\ present # JsUndefined /\ Len(op.requests) = 1
               => op.pc = "signTypedData" \/ op.ret = Error("local call rejected")
====
